---- MODULE Spec2Model ----
(***************************************************************************)
(* Model of the authentication and session core of the RIM corporate       *)
(* directory (Go, fiber + gorm + redis): Telegram login verification,      *)
(* sessions in Redis, the HTTP routes and their middleware chains.         *)
(*                                                                         *)
(* Strings are sequences of one-character strings, so that prefixes,       *)
(* concatenation and sorting are computed as the code computes them.       *)
(* Time is counted in hours.                                               *)
(***************************************************************************)
EXTENDS Integers, Sequences, FiniteSets, TLC

VARIABLES
  now,             \* wall clock, in hours
  redis,           \* the Redis keyspace: key -> [value, expireAt]
  users,           \* table users: sequence of rows, index = primary key
  contacts,        \* table contacts: sequence of rows, index = primary key
  groups,          \* table groups: sequence of rows, index = primary key
  settings,        \* table system_settings: key -> value
  forceDebugMode,  \* cfg.ForceDebugMode, fixed at process start
  issued,          \* values uuid.New() has returned so far
  resp,            \* the last request served and its response
  call,            \* arguments of the pure function under study
  ret              \* its result

vars == <<now, redis, users, contacts, groups, settings, forceDebugMode,
          issued, resp, call, ret>>

(***************************************************************************)
(* Bounds of the model.                                                    *)
(***************************************************************************)
MaxTime == 169
MaxGroups == 2
MaxContacts == 2

(***************************************************************************)
(* Strings.                                                                *)
(***************************************************************************)
Empty == << >>

Digit == <<"0", "1", "2", "3", "4", "5", "6", "7", "8", "9">>

\* The characters that occur in sorted keys, in byte order.
Alphabet == <<"_", "a", "b", "c", "d", "e", "f", "g", "h", "i", "j", "k", "l",
              "m", "n", "o", "p", "q", "r", "s", "t", "u", "v", "w", "x", "y", "z">>

CharCode(c) == CHOOSE i \in 1..Len(Alphabet) : Alphabet[i] = c

RECURSIVE FormatNat(_)
FormatNat(n) ==
  IF n < 10 THEN <<Digit[n + 1]>>
  ELSE FormatNat(n \div 10) \o <<Digit[(n % 10) + 1]>>

\* strconv.FormatInt(n, 10)
FormatInt(n) == IF n < 0 THEN <<"-">> \o FormatNat(-n) ELSE FormatNat(n)

\* a < b for Go strings (bytewise lexicographic order)
RECURSIVE StrLess(_, _)
StrLess(a, b) ==
  IF b = Empty THEN FALSE
  ELSE IF a = Empty THEN TRUE
  ELSE IF Head(a) = Head(b) THEN StrLess(Tail(a), Tail(b))
  ELSE CharCode(Head(a)) < CharCode(Head(b))

RECURSIVE InsertSorted(_, _)
InsertSorted(k, s) ==
  IF s = Empty THEN <<k>>
  ELSE IF StrLess(k, Head(s)) THEN <<k>> \o s
  ELSE <<Head(s)>> \o InsertSorted(k, Tail(s))

\* sort.Strings
RECURSIVE SortStrings(_)
SortStrings(s) == IF s = Empty THEN Empty ELSE InsertSorted(Head(s), SortStrings(Tail(s)))

\* strings.Join
RECURSIVE Join(_, _)
Join(parts, sep) ==
  IF parts = Empty THEN Empty
  ELSE IF Len(parts) = 1 THEN parts[1]
  ELSE parts[1] \o sep \o Join(Tail(parts), sep)

\* strings.HasSuffix
HasSuffix(s, p) == Len(s) >= Len(p) /\ SubSeq(s, Len(s) - Len(p) + 1, Len(s)) = p

(***************************************************************************)
(* Cryptography, idealised: a digest is the term of what was hashed, so    *)
(* two digests are equal exactly when key and message are equal.  A hex    *)
(* string is the digest it encodes plus the number of characters in which  *)
(* it departs from the encoding (0 for hex.EncodeToString itself).         *)
(***************************************************************************)
SHA256(msg) == [pre |-> msg]

HMACSHA256(key, msg) == [key |-> key, msg |-> msg]

HexEncodeToString(digest) == [digest |-> digest, altered |-> 0]

(***************************************************************************)
(* Telegram login verification.                                            *)
(***************************************************************************)
K_id == <<"i", "d">>
K_auth_date == <<"a", "u", "t", "h", "_", "d", "a", "t", "e">>
K_first_name == <<"f", "i", "r", "s", "t", "_", "n", "a", "m", "e">>
K_last_name == <<"l", "a", "s", "t", "_", "n", "a", "m", "e">>
K_username == <<"u", "s", "e", "r", "n", "a", "m", "e">>
K_photo_url == <<"p", "h", "o", "t", "o", "_", "u", "r", "l">>

\* The params map built from a claim: the set of its keys and their values.
ParamKeys(a) ==
  {K_id, K_auth_date}
    \cup (IF a.FirstName # Empty THEN {K_first_name} ELSE {})
    \cup (IF a.LastName # Empty THEN {K_last_name} ELSE {})
    \cup (IF a.Username # Empty THEN {K_username} ELSE {})
    \cup (IF a.PhotoURL # Empty THEN {K_photo_url} ELSE {})

ParamValue(a, k) ==
  IF k = K_id THEN FormatInt(a.ID)
  ELSE IF k = K_auth_date THEN FormatInt(a.AuthDate)
  ELSE IF k = K_first_name THEN a.FirstName
  ELSE IF k = K_last_name THEN a.LastName
  ELSE IF k = K_username THEN a.Username
  ELSE a.PhotoURL

\* Some enumeration of a set as a sequence (Go map iteration order).
RECURSIVE SetToSeq(_)
SetToSeq(S) ==
  IF S = {} THEN Empty
  ELSE LET x == CHOOSE y \in S : TRUE IN <<x>> \o SetToSeq(S \ {x})

\* url.QueryEscape on the characters of the model
EscapeChar(c) ==
  IF c = " " THEN <<"+">>
  ELSE IF c = ":" THEN <<"%", "3", "A">>
  ELSE IF c = "/" THEN <<"%", "2", "F">>
  ELSE IF c = "?" THEN <<"%", "3", "F">>
  ELSE IF c = "=" THEN <<"%", "3", "D">>
  ELSE IF c = "&" THEN <<"%", "2", "6">>
  ELSE IF c = "U+0416" THEN <<"%", "D", "0", "%", "9", "6">>
  ELSE <<c>>

RECURSIVE QueryEscape(_)
QueryEscape(str) ==
  IF str = Empty THEN Empty ELSE EscapeChar(Head(str)) \o QueryEscape(Tail(str))

\* createDataCheckString of the older copy of the use case (part_013), which
\* URL-escapes the values
createDataCheckString_escaped(a) ==
  LET keys == SortStrings(SetToSeq(ParamKeys(a)))
      parts == [i \in 1..Len(keys) |->
                  keys[i] \o <<"=">> \o QueryEscape(ParamValue(a, keys[i]))]
  IN Join(parts, <<"\n">>)

createDataCheckString(a) ==
  LET keys == SortStrings(SetToSeq(ParamKeys(a)))
      parts == [i \in 1..Len(keys) |-> keys[i] \o <<"=">> \o ParamValue(a, keys[i])]
  IN Join(parts, <<"\n">>)

\* 24*time.Hour, the oldest auth_date accepted
AuthMaxAge == 24

verifyTelegramAuth_late(a, token, t) ==
  LET expectedHash == HexEncodeToString(HMACSHA256(SHA256(token), createDataCheckString(a)))
  IN IF expectedHash # a.Hash THEN FALSE
     ELSE IF t - a.AuthDate > AuthMaxAge + 1 THEN FALSE
     ELSE TRUE

verifyTelegramAuth_nohash(a, token, t) ==
  IF t - a.AuthDate > AuthMaxAge THEN FALSE ELSE TRUE

\* verifyTelegramAuth at wall-clock time t
verifyTelegramAuth(a, token, t) ==
  LET dataCheckString == createDataCheckString(a)
      secretKey == SHA256(token)
      expectedHash == HexEncodeToString(HMACSHA256(secretKey, dataCheckString))
      timeSince == t - a.AuthDate
  IN IF expectedHash # a.Hash THEN FALSE
     ELSE IF timeSince > AuthMaxAge THEN FALSE
     ELSE TRUE

(***************************************************************************)
(* Values shared by the stores and the HTTP boundary.                      *)
(***************************************************************************)
Rep(c, n) == [i \in 1..n |-> c]

\* Number of values uuid.New() hands out in one run of the model.
MaxSessions == 2

\* The i-th UUID string of the pool (36 characters).  UUID(1) and UUID(3)
\* agree on their first 8 characters, as two random UUIDs may.
UUID(i) ==
  Rep(<<"a", "b">>[((i - 1) % 2) + 1], 8) \o Rep(Digit[((i - 1) \div 2) + 1], 28)

UUIDPool == {UUID(i) : i \in 1..MaxSessions}

\* The bot secret the server is configured with (cfg.BotToken).
BotSecret == <<"S">>

\* Telegram IDs that log in.
TelegramIDs == {42, 43}

NoUser == [ID |-> 0, TelegramID |-> 0, ContactID |-> 0, IsActive |-> FALSE]

NoContact ==
  [ID |-> 0, TelegramID |-> 0, Name |-> Empty, Phone |-> Empty, Email |-> Empty,
   Groups |-> {}, Deleted |-> FALSE]

NoGroup == [ID |-> 0, Name |-> Empty, Deleted |-> FALSE]

NoSession == [SessionToken |-> Empty, UserID |-> 0, CreatedAt |-> 0, ExpiredAt |-> 0]

\* session lifetime: 7 * 24 * time.Hour
SessionLifetime == 7 * 24

(***************************************************************************)
(* Session store (Redis).  fault = TRUE: the Redis commands of this        *)
(* request fail with a transport error.                                    *)
(***************************************************************************)
getSessionKey(sessionToken) ==
  <<"s", "e", "s", "s", "i", "o", "n", ":">> \o sessionToken

\* json.Marshal of a domain.UserSession
MarshalSession(s) ==
  [session_token |-> s.SessionToken, user_id |-> s.UserID,
   created_at |-> s.CreatedAt, expired_at |-> s.ExpiredAt]

\* json.Unmarshal into a domain.UserSession
UnmarshalSession(j) ==
  [SessionToken |-> j.session_token, UserID |-> j.user_id,
   CreatedAt |-> j.created_at, ExpiredAt |-> j.expired_at]

\* redis SET key value EX ttl
RedisSet(r, key, value, ttl, t) ==
  [k \in DOMAIN r \cup {key} |->
     IF k = key THEN [value |-> value, expireAt |-> t + ttl] ELSE r[k]]

\* redis DEL key
RedisDel(r, key) == [k \in DOMAIN r \ {key} |-> r[k]]

CreateSession_clobber(r, session, t, fault) ==
  IF fault THEN [err |-> "redis: connection refused", redis |-> r]
  ELSE [err |-> "",
        redis |-> [k \in {getSessionKey(session.SessionToken)} |->
                     [value |-> MarshalSession(session), expireAt |-> session.ExpiredAt]]]

\* CreateSession that stores the key with a TTL longer than the time left
CreateSession_longer(r, session, t, fault) ==
  LET sessionData == MarshalSession(session)
      key == getSessionKey(session.SessionToken)
      ttl == session.ExpiredAt - t + 1
  IN IF fault THEN [err |-> "redis: connection refused", redis |-> r]
     ELSE [err |-> "", redis |-> RedisSet(r, key, sessionData, ttl, t)]

CreateSession(r, session, t, fault) ==
  LET sessionData == MarshalSession(session)
      key == getSessionKey(session.SessionToken)
      ttl == session.ExpiredAt - t
  IN IF fault THEN [err |-> "redis: connection refused", redis |-> r]
     ELSE [err |-> "", redis |-> RedisSet(r, key, sessionData, ttl, t)]

DeleteSession_keep(r, sessionToken, fault) ==
  IF fault THEN [err |-> "redis: connection refused", redis |-> r]
  ELSE [err |-> "", redis |-> r]

DeleteSession(r, sessionToken, fault) ==
  LET key == getSessionKey(sessionToken)
  IN IF fault THEN [err |-> "redis: connection refused", redis |-> r]
     ELSE [err |-> "", redis |-> RedisDel(r, key)]

\* Redis glob matching for patterns built from literal characters and '*'
RECURSIVE GlobMatch(_, _)
GlobMatch(pattern, s) ==
  IF pattern = Empty THEN s = Empty
  ELSE IF Head(pattern) = "*"
    THEN GlobMatch(Tail(pattern), s) \/ (s # Empty /\ GlobMatch(pattern, Tail(s)))
  ELSE s # Empty /\ Head(s) = Head(pattern) /\ GlobMatch(Tail(pattern), Tail(s))

\* redis KEYS pattern
RedisKeys(r, pattern) == {k \in DOMAIN r : GlobMatch(pattern, k)}

DeleteAllUserSessions(r, userID, fault) ==
  LET pattern == <<"s", "e", "s", "s", "i", "o", "n", ":", "u", "s", "e", "r", ":">>
                   \o FormatInt(userID) \o <<":", "*">>
      keys == RedisKeys(r, pattern)
  IN IF fault THEN [err |-> "redis: connection refused", redis |-> r]
     ELSE IF keys = {} THEN [err |-> "", redis |-> r]
     ELSE [err |-> "", redis |-> [k \in DOMAIN r \ keys |-> r[k]]]

GetSession_nodelete(r, sessionToken, t, fault) ==
  LET key == getSessionKey(sessionToken)
  IN IF fault THEN [session |-> NoSession, err |-> "redis: connection refused", redis |-> r]
     ELSE IF key \notin DOMAIN r
       THEN [session |-> NoSession, err |-> "session not found", redis |-> r]
     ELSE IF t > UnmarshalSession(r[key].value).ExpiredAt
       THEN [session |-> NoSession, err |-> "session expired", redis |-> r]
     ELSE [session |-> UnmarshalSession(r[key].value), err |-> "", redis |-> r]

GetSession(r, sessionToken, t, fault) ==
  LET key == getSessionKey(sessionToken)
  IN IF fault THEN [session |-> NoSession, err |-> "redis: connection refused", redis |-> r]
     ELSE IF key \notin DOMAIN r
       THEN [session |-> NoSession, err |-> "session not found", redis |-> r]
     ELSE LET session == UnmarshalSession(r[key].value)
          IN IF t > session.ExpiredAt   \* time.Now().After(session.ExpiredAt)
               THEN [session |-> NoSession, err |-> "session expired",
                     redis |-> DeleteSession(r, sessionToken, fault).redis]
               ELSE [session |-> session, err |-> "", redis |-> r]

(***************************************************************************)
(* Tables users and contacts as the auth use case reads them.              *)
(* dbFault = TRUE: the SQL statements of this request fail.                *)
(***************************************************************************)
\* BaseRepository[domain.User].GetByID
GetUserByID(id, dbFault) ==
  IF dbFault THEN [user |-> NoUser, err |-> "database is locked"]
  ELSE IF id \in 1..Len(users) THEN [user |-> users[id], err |-> ""]
  ELSE [user |-> NoUser, err |-> "record not found"]

\* WHERE telegram_id = ? AND is_active = true
GetUserByTelegramID(telegramID, dbFault) ==
  LET hits == {i \in 1..Len(users) : users[i].TelegramID = telegramID /\ users[i].IsActive}
  IN IF dbFault THEN [user |-> NoUser, err |-> "database is locked"]
     ELSE IF hits = {} THEN [user |-> NoUser, err |-> "record not found"]
     ELSE [user |-> users[CHOOSE i \in hits : \A j \in hits : i <= j], err |-> ""]

\* contacts: WHERE telegram_id = ? (soft-deleted rows are out of scope; the
\* Groups association is not preloaded by this query)
GetByTelegramID(telegramID, dbFault) ==
  LET hits == {i \in 1..Len(contacts) :
                 contacts[i].TelegramID = telegramID /\ ~contacts[i].Deleted}
  IN IF dbFault THEN [contact |-> NoContact, err |-> "database is locked"]
     ELSE IF hits = {} THEN [contact |-> NoContact, err |-> "record not found"]
     ELSE [contact |-> [contacts[CHOOSE i \in hits : \A j \in hits : i <= j]
                          EXCEPT !.Groups = {}],
           err |-> ""]

\* BaseRepository[domain.User].Create on a table without the unique index
CreateUser_noindex(user, dbFault) ==
  IF dbFault THEN [user |-> NoUser, err |-> "database is locked", users |-> users]
  ELSE LET row == [user EXCEPT !.ID = Len(users) + 1]
       IN [user |-> row, err |-> "", users |-> Append(users, row)]

\* BaseRepository[domain.User].Create under the unique index on telegram_id
CreateUser(user, dbFault) ==
  IF dbFault THEN [user |-> NoUser, err |-> "database is locked", users |-> users]
  ELSE IF \E i \in 1..Len(users) : users[i].TelegramID = user.TelegramID
    THEN [user |-> NoUser, err |-> "UNIQUE constraint failed: users.telegram_id",
          users |-> users]
  ELSE LET row == [user EXCEPT !.ID = Len(users) + 1]
       IN [user |-> row, err |-> "", users |-> Append(users, row)]

\* strings.Contains(err.Error(), sub) for the error texts of the model
ErrorContains(e, sub) ==
  \/ sub = "not found" /\ e \in {"session not found", "record not found"}
  \/ sub = "expired" /\ e \in {"session expired"}

(***************************************************************************)
(* Auth use case.                                                          *)
(***************************************************************************)
GetUserBySession_anyuser(r, sessionToken, t, fault, dbFault) ==
  LET gs == GetSession(r, sessionToken, t, fault)
  IN IF gs.err # "" THEN [user |-> NoUser, err |-> "ErrSessionNotFound", redis |-> gs.redis]
     ELSE IF Len(users) = 0 THEN [user |-> NoUser, err |-> "ErrUserNotFound", redis |-> gs.redis]
     ELSE [user |-> users[1], err |-> "", redis |-> gs.redis]

GetUserBySession(r, sessionToken, t, fault, dbFault) ==
  LET gs == GetSession(r, sessionToken, t, fault)
  IN IF gs.err # ""
       THEN IF ErrorContains(gs.err, "not found")
              THEN [user |-> NoUser, err |-> "ErrSessionNotFound", redis |-> gs.redis]
            ELSE IF ErrorContains(gs.err, "expired")
              THEN [user |-> NoUser, err |-> "ErrSessionExpired", redis |-> gs.redis]
            ELSE [user |-> NoUser, err |-> gs.err, redis |-> gs.redis]
     ELSE LET gu == GetUserByID(gs.session.UserID, dbFault)
          IN IF gu.err # ""
               THEN IF gu.err = "record not found"
                      THEN [user |-> NoUser, err |-> "ErrUserNotFound", redis |-> gs.redis]
                      ELSE [user |-> NoUser, err |-> gu.err, redis |-> gs.redis]
             ELSE IF ~gu.user.IsActive
               THEN [user |-> NoUser, err |-> "ErrUserNotFound", redis |-> gs.redis]
             ELSE [user |-> gu.user, err |-> "", redis |-> gs.redis]

\* What AuthenticateWithTelegram returns and writes; tok is the value
\* uuid.New() yields if the call gets that far.
AuthFail(e, u, r, i) == [session |-> NoSession, err |-> e, users |-> u, redis |-> r, issued |-> i]

NewSessionFor(user, tok, t) ==
  [SessionToken |-> tok, UserID |-> user.ID, CreatedAt |-> t, ExpiredAt |-> t + SessionLifetime]

IssueSession_reuse(r, user, u, tok, t, fault) ==
  LET old == IF issued = {} THEN tok ELSE CHOOSE x \in issued : TRUE
      session == NewSessionFor(user, old, t)
      cs == CreateSession(r, session, t, fault)
  IN IF cs.err # "" THEN AuthFail(cs.err, u, r, issued \cup {old})
     ELSE [session |-> session, err |-> "", users |-> u, redis |-> cs.redis,
           issued |-> issued \cup {old}]

\* The tail of AuthenticateWithTelegram: mint a token and store the session.
IssueSession(r, user, u, tok, t, fault) ==
  LET session == NewSessionFor(user, tok, t)
      cs == CreateSession(r, session, t, fault)
  IN IF cs.err # "" THEN AuthFail(cs.err, u, r, issued \cup {tok})
     ELSE [session |-> session, err |-> "", users |-> u, redis |-> cs.redis,
           issued |-> issued \cup {tok}]

AuthenticateWithTelegram_noverify(a, token, tok, t, fault, dbFault) ==
  LET gu == GetUserByTelegramID(a.ID, dbFault)
  IN IF gu.err = "" THEN IssueSession(redis, gu.user, users, tok, t, fault)
     ELSE LET cu == CreateUser([ID |-> 0, TelegramID |-> a.ID, ContactID |-> 0,
                                IsActive |-> TRUE], dbFault)
          IN IF cu.err # "" THEN AuthFail(cu.err, users, redis, issued)
             ELSE IssueSession(redis, cu.user, cu.users, tok, t, fault)

\* AuthenticateWithTelegram that never links the new user
AuthenticateWithTelegram_nolink(a, token, tok, t, fault, dbFault) ==
  IF ~verifyTelegramAuth(a, token, t)
    THEN AuthFail("ErrInvalidTelegramAuth", users, redis, issued)
  ELSE
    LET gu == GetUserByTelegramID(a.ID, dbFault)
    IN IF gu.err # "" /\ gu.err # "record not found"
         THEN AuthFail(gu.err, users, redis, issued)
       ELSE IF gu.err = "record not found"
         THEN LET gc == GetByTelegramID(a.ID, dbFault)
              IN IF gc.err # "" /\ gc.err # "record not found"
                   THEN AuthFail(gc.err, users, redis, issued)
                 ELSE
                   LET user == [ID |-> 0, TelegramID |-> a.ID,
                                ContactID |-> 0,
                                IsActive |-> TRUE]
                       cu == CreateUser(user, dbFault)
                   IN IF cu.err # "" THEN AuthFail(cu.err, users, redis, issued)
                      ELSE IF ~cu.user.IsActive
                        THEN AuthFail("ErrUserNotFound", cu.users, redis, issued)
                      ELSE IssueSession(redis, cu.user, cu.users, tok, t, fault)
       ELSE IF ~gu.user.IsActive
         THEN AuthFail("ErrUserNotFound", users, redis, issued)
       ELSE IssueSession(redis, gu.user, users, tok, t, fault)

AuthenticateWithTelegram(a, token, tok, t, fault, dbFault) ==
  IF ~verifyTelegramAuth(a, token, t)
    THEN AuthFail("ErrInvalidTelegramAuth", users, redis, issued)
  ELSE
    LET gu == GetUserByTelegramID(a.ID, dbFault)
    IN IF gu.err # "" /\ gu.err # "record not found"
         THEN AuthFail(gu.err, users, redis, issued)
       ELSE IF gu.err = "record not found"
         THEN LET gc == GetByTelegramID(a.ID, dbFault)
              IN IF gc.err # "" /\ gc.err # "record not found"
                   THEN AuthFail(gc.err, users, redis, issued)
                 ELSE
                   LET user == [ID |-> 0, TelegramID |-> a.ID,
                                ContactID |-> IF gc.err = "" THEN gc.contact.ID ELSE 0,
                                IsActive |-> TRUE]
                       cu == CreateUser(user, dbFault)
                   IN IF cu.err # "" THEN AuthFail(cu.err, users, redis, issued)
                      ELSE IF ~cu.user.IsActive
                        THEN AuthFail("ErrUserNotFound", cu.users, redis, issued)
                      ELSE IssueSession(redis, cu.user, cu.users, tok, t, fault)
       ELSE IF ~gu.user.IsActive
         THEN AuthFail("ErrUserNotFound", users, redis, issued)
       ELSE IssueSession(redis, gu.user, users, tok, t, fault)

\* authUseCase.Logout
Logout(r, sessionToken, fault) == DeleteSession(r, sessionToken, fault)

\* The reserved name of the administrators group, one entry per rune.
AdminGroupName ==
  <<"U+0410", "U+0434", "U+043C", "U+0438", "U+043D", "U+0438", "U+0441",
    "U+0442", "U+0440", "U+0430", "U+0442", "U+043E", "U+0440", "U+044B">>

IsUserAdmin(userID, dbFault) ==
  LET gu == GetUserByID(userID, dbFault)
  IN IF gu.err # "" THEN [admin |-> FALSE, err |-> gu.err]
     ELSE LET gc == GetByTelegramID(gu.user.TelegramID, dbFault)
          IN IF gc.err = "record not found" THEN [admin |-> FALSE, err |-> ""]
             ELSE IF gc.err # "" THEN [admin |-> FALSE, err |-> gc.err]
             ELSE IF \E g \in gc.contact.Groups : groups[g].Name = AdminGroupName
               THEN [admin |-> TRUE, err |-> ""]
             ELSE [admin |-> FALSE, err |-> ""]

\* authUseCase.GetContactByTelegramID
GetContactByTelegramID(telegramID, dbFault) ==
  LET gc == GetByTelegramID(telegramID, dbFault)
  IN IF gc.err = "record not found" THEN [contact |-> NoContact, err |-> "ErrContactNotFound"]
     ELSE gc

(***************************************************************************)
(* System settings.                                                        *)
(***************************************************************************)
DebugModeKey == "debug_mode"

\* systemUseCase.GetDebugMode over sqliteRepository.GetSetting
\* strconv.ParseBool
ParseBool(str) ==
  IF str \in {"1", "t", "T", "TRUE", "true", "True"} THEN [value |-> TRUE, err |-> ""]
  ELSE IF str \in {"0", "f", "F", "FALSE", "false", "False"} THEN [value |-> FALSE, err |-> ""]
  ELSE [value |-> FALSE, err |-> "strconv.ParseBool: invalid syntax"]

GetDebugMode(dbFault) ==
  IF dbFault THEN [enabled |-> FALSE, err |-> "database is locked"]
  ELSE IF DebugModeKey \notin DOMAIN settings THEN [enabled |-> FALSE, err |-> ""]
  ELSE [enabled |-> ParseBool(settings[DebugModeKey]).value,
        err |-> ParseBool(settings[DebugModeKey]).err]

\* strconv.FormatBool
FormatBool(b) == IF b THEN "true" ELSE "false"

\* systemUseCase.SetDebugMode over sqliteRepository.SetSetting (upsert)
SetDebugMode(enabled, dbFault) ==
  IF dbFault THEN [err |-> "database is locked", settings |-> settings]
  ELSE [err |-> "",
        settings |-> [k \in DOMAIN settings \cup {DebugModeKey} |->
                        IF k = DebugModeKey THEN FormatBool(enabled) ELSE settings[k]]]

\* initSystemSettings (main.go): the settings table it leaves behind
initSystemSettings(dbFault) ==
  IF GetDebugMode(dbFault).err # "" THEN SetDebugMode(FALSE, dbFault).settings
  ELSE settings

(***************************************************************************)
(* HTTP boundary: requests, responses, token extraction, CSRF guard.       *)
(***************************************************************************)
BearerPrefix == <<"B", "e", "a", "r", "e", "r", " ">>
PathAuthContact == <<"/", "a", "p", "i", "/", "v", "1", "/", "a", "u", "t", "h", "/", "c", "o", "n", "t", "a", "c", "t">>
PathLogout == <<"/", "a", "p", "i", "/", "v", "1", "/", "a", "u", "t", "h", "/", "l", "o", "g", "o", "u", "t">>
PathDebugMode == <<"/", "a", "p", "i", "/", "v", "1", "/", "s", "y", "s", "t", "e", "m", "/", "d", "e", "b", "u", "g", "-", "m", "o", "d", "e">>
PathContacts == <<"/", "a", "p", "i", "/", "v", "1", "/", "c", "o", "n", "t", "a", "c", "t", "s", "/">>
SfxTelegram == <<"/", "t", "e", "l", "e", "g", "r", "a", "m">>
SfxDebugMode == <<"/", "d", "e", "b", "u", "g", "-", "m", "o", "d", "e">>
SegGroups == <<"/", "g", "r", "o", "u", "p", "s", "/">>

\* A request as the auth code sees it: the session_token cookie, the
\* Authorization header and the X-CSRF-Token header (Empty = not sent).
NoReq == [cookie |-> Empty, authorization |-> Empty, csrf |-> Empty]

\* JSON response body; fields a response does not carry keep these defaults.
Body ==
  [error |-> "", message |-> "", session_token |-> Empty, expires_at |-> 0,
   id |-> 0, telegram_id |-> 0, is_active |-> FALSE, is_admin |-> FALSE,
   contact_id |-> 0, csrf_token |-> Empty, enabled |-> FALSE, name |-> Empty]

ErrBody(e) == [Body EXCEPT !.error = e]

\* Set-Cookie: session_token=...
NoCookie == [set |-> FALSE, value |-> Empty, expires |-> 0]

ClearCookie(t) == [set |-> TRUE, value |-> Empty, expires |-> t - 1]

\* Status of a request whose handler panicked (no response is written).
Panicked == 0

\* Handler.extractSessionToken: the token of the Authorization header
extractSessionToken(req) ==
  LET authHeader == req.authorization
  IN IF authHeader = Empty THEN Empty
     ELSE IF Len(authHeader) <= Len(BearerPrefix)
             \/ SubSeq(authHeader, 1, Len(BearerPrefix)) # BearerPrefix THEN Empty
     ELSE SubSeq(authHeader, Len(BearerPrefix) + 1, Len(authHeader))

\* length of the hex part of a CSRF token (16 random bytes)
CSRFHexLen == 32

\* number of session-token characters bound into a CSRF token
CSRFSessionPart == 8

\* minimum length of a CSRF token
CSRFMinLen == 40

\* generateCSRFToken, hexRandom = hex.EncodeToString(randomBytes)
generateCSRFToken(sessionToken, hexRandom) ==
  IF Len(sessionToken) < CSRFSessionPart THEN [panic |-> TRUE, token |-> Empty]
  ELSE [panic |-> FALSE, token |-> hexRandom \o SubSeq(sessionToken, 1, CSRFSessionPart)]

\* validateCSRFToken that checks the length only
validateCSRFToken_lenonly(sessionToken, csrfToken) ==
  IF Len(csrfToken) < CSRFMinLen THEN [panic |-> FALSE, ok |-> FALSE]
  ELSE IF Len(sessionToken) < CSRFSessionPart THEN [panic |-> TRUE, ok |-> FALSE]
  ELSE [panic |-> FALSE, ok |-> TRUE]

validateCSRFToken(sessionToken, csrfToken) ==
  IF Len(csrfToken) < CSRFMinLen THEN [panic |-> FALSE, ok |-> FALSE]
  ELSE IF Len(sessionToken) < CSRFSessionPart THEN [panic |-> TRUE, ok |-> FALSE]
  ELSE [panic |-> FALSE,
        ok |-> SubSeq(csrfToken, CSRFHexLen + 1, Len(csrfToken))
                 = SubSeq(sessionToken, 1, CSRFSessionPart)]

\* CSRFMiddleware: "next", "forbidden" (403 Invalid CSRF token) or "panic"
CSRFMiddleware(method, path, req) ==
  IF method = "GET" \/ HasSuffix(path, SfxTelegram) \/ HasSuffix(path, SfxDebugMode)
    THEN "next"
  ELSE LET csrfToken == req.csrf
           sessionToken == extractSessionToken(req)
       IN IF sessionToken = Empty THEN "next"
          ELSE LET v == validateCSRFToken(sessionToken, csrfToken)
               IN IF v.panic THEN "panic"
                  ELSE IF ~v.ok THEN "forbidden"
                  ELSE "next"

\* The result of a middleware or handler: whether the chain goes on, the
\* response if it does not, the cookie it sets, the Redis keyspace it leaves
\* and the user it put into the request context (c.Locals).
Stop(status, body, cookie, r) ==
  [next |-> FALSE, status |-> status, body |-> body, setCookie |-> cookie,
   redis |-> r, user |-> NoUser]

Pass(cookie, r, user) ==
  [next |-> TRUE, status |-> 0, body |-> Body, setCookie |-> cookie,
   redis |-> r, user |-> user]

\* RequireAuthCookie that lets a request without a resolvable session through
RequireAuthCookie_open(req, r, t, fault, dbFault) ==
  LET sessionToken == IF req.cookie # Empty THEN req.cookie ELSE extractSessionToken(req)
  IN IF sessionToken = Empty THEN Pass(NoCookie, r, NoUser)
     ELSE LET g == GetUserBySession(r, sessionToken, t, fault, dbFault)
          IN IF g.err # "" THEN Pass(ClearCookie(t), g.redis, NoUser)
             ELSE Pass(NoCookie, g.redis, g.user)

RequireAuthCookie(req, r, t, fault, dbFault) ==
  LET sessionToken == IF req.cookie # Empty THEN req.cookie ELSE extractSessionToken(req)
  IN IF sessionToken = Empty
       THEN Stop(401, ErrBody("Authentication required"), NoCookie, r)
     ELSE LET g == GetUserBySession(r, sessionToken, t, fault, dbFault)
          IN IF g.err # ""
               THEN Stop(401, ErrBody("Invalid or expired session"), ClearCookie(t), g.redis)
               ELSE Pass(NoCookie, g.redis, g.user)

\* CookieAuthMiddleware never stops the chain.
CookieAuthMiddleware(req, r, t, fault, dbFault) ==
  LET sessionToken == IF req.cookie # Empty THEN req.cookie ELSE extractSessionToken(req)
  IN IF sessionToken = Empty THEN Pass(NoCookie, r, NoUser)
     ELSE LET g == GetUserBySession(r, sessionToken, t, fault, dbFault)
          IN IF g.err # "" THEN Pass(ClearCookie(t), g.redis, NoUser)
             ELSE Pass(NoCookie, g.redis, g.user)

\* requireAdminOrDebug without the cfg.ForceDebugMode branch
requireAdminOrDebug_noforce(user, r, cookie, dbFault) ==
  LET d == GetDebugMode(dbFault)
  IN IF d.err = "" /\ d.enabled THEN Pass(cookie, r, user)
     ELSE IF user = NoUser THEN Stop(401, ErrBody("Unauthorized"), cookie, r)
     ELSE LET a == IsUserAdmin(user.ID, dbFault)
          IN IF a.err # "" THEN Stop(500, ErrBody("Internal server error"), cookie, r)
             ELSE IF ~a.admin THEN Stop(403, ErrBody("Admin rights required"), cookie, r)
             ELSE Pass(cookie, r, user)

\* requireAdminOrDebug; user is what the auth middleware left in c.Locals
\* requireAdminOrDebug that lets the request through when the debug
\* setting cannot be read
requireAdminOrDebugOn_failopen(user, r, cookie, debugFault, adminFault) ==
  IF forceDebugMode THEN Pass(cookie, r, user)
  ELSE LET d == GetDebugMode(debugFault)
       IN IF d.err # "" \/ d.enabled THEN Pass(cookie, r, user)
          ELSE IF user = NoUser THEN Stop(401, ErrBody("Unauthorized"), cookie, r)
          ELSE LET a == IsUserAdmin(user.ID, adminFault)
               IN IF a.err # "" THEN Stop(500, ErrBody("Internal server error"), cookie, r)
                  ELSE IF ~a.admin THEN Stop(403, ErrBody("Admin rights required"), cookie, r)
                  ELSE Pass(cookie, r, user)

\* requireAdminOrDebug; debugFault and adminFault: the statements of
\* GetDebugMode, of IsUserAdmin fail
requireAdminOrDebugOn(user, r, cookie, debugFault, adminFault) ==
  IF forceDebugMode THEN Pass(cookie, r, user)
  ELSE LET d == GetDebugMode(debugFault)
       IN IF d.err = "" /\ d.enabled THEN Pass(cookie, r, user)
          ELSE IF user = NoUser THEN Stop(401, ErrBody("Unauthorized"), cookie, r)
          ELSE LET a == IsUserAdmin(user.ID, adminFault)
               IN IF a.err # "" THEN Stop(500, ErrBody("Internal server error"), cookie, r)
                  ELSE IF ~a.admin THEN Stop(403, ErrBody("Admin rights required"), cookie, r)
                  ELSE Pass(cookie, r, user)

requireAdminOrDebug(user, r, cookie, dbFault) ==
  requireAdminOrDebugOn(user, r, cookie, dbFault, dbFault)

(***************************************************************************)
(* Auth handlers.  Each yields the response and the Redis keyspace after;  *)
(* the login handler also yields the users table and the issued tokens.    *)
(***************************************************************************)
Reply(status, body, cookie, r) ==
  [status |-> status, body |-> body, setCookie |-> cookie, redis |-> r]

\* Handler.AuthWithTelegram; parsed = c.BodyParser succeeded
AuthWithTelegram(parsed, a, tok, t, fault, dbFault) ==
  IF ~parsed
    THEN [status |-> 400, body |-> ErrBody("Invalid request body"), setCookie |-> NoCookie,
          redis |-> redis, users |-> users, issued |-> issued]
  ELSE
    LET o == AuthenticateWithTelegram(a, BotSecret, tok, t, fault, dbFault)
    IN IF o.err = "ErrInvalidTelegramAuth"
         THEN [status |-> 401, body |-> ErrBody("Invalid telegram authentication"),
               setCookie |-> NoCookie, redis |-> o.redis, users |-> o.users,
               issued |-> o.issued]
       ELSE IF o.err # ""
         THEN [status |-> 500, body |-> ErrBody("Internal server error"),
               setCookie |-> NoCookie, redis |-> o.redis, users |-> o.users,
               issued |-> o.issued]
       ELSE [status |-> 200,
             body |-> [Body EXCEPT !.session_token = o.session.SessionToken,
                                   !.expires_at = o.session.ExpiredAt],
             setCookie |-> [set |-> TRUE, value |-> o.session.SessionToken,
                            expires |-> o.session.ExpiredAt],
             redis |-> o.redis, users |-> o.users, issued |-> o.issued]

\* The 401/500 answers GetMe and UpdateMyContact give to a failed resolution
SessionErrorReply(e, r) ==
  IF e \in {"ErrSessionNotFound", "ErrSessionExpired"}
    THEN Reply(401, ErrBody("Invalid or expired session"), NoCookie, r)
  ELSE IF e = "ErrUserNotFound"
    THEN Reply(401, ErrBody("User not found"), NoCookie, r)
  ELSE Reply(500, ErrBody("Internal server error"), NoCookie, r)

\* Handler.GetMe without the persisted debug setting
GetMe_nodebug(req, r, t, fault, dbFault) ==
  LET sessionToken == extractSessionToken(req)
  IN IF sessionToken = Empty
       THEN Reply(401, ErrBody("Authorization header required"), NoCookie, r)
     ELSE
       LET g == GetUserBySession(r, sessionToken, t, fault, dbFault)
       IN IF g.err # "" THEN SessionErrorReply(g.err, g.redis)
          ELSE
            LET a == IsUserAdmin(g.user.ID, dbFault)
                isAdmin0 == IF a.err # "" THEN FALSE ELSE a.admin
                d == GetDebugMode(dbFault)
                isAdmin == IF isAdmin0 THEN TRUE
                           ELSE IF forceDebugMode THEN TRUE
                           ELSE FALSE
                c == GetContactByTelegramID(g.user.TelegramID, dbFault)
            IN Reply(200,
                     [Body EXCEPT !.id = g.user.ID,
                                  !.telegram_id = g.user.TelegramID,
                                  !.is_active = g.user.IsActive,
                                  !.is_admin = isAdmin,
                                  !.contact_id = c.contact.ID],
                     NoCookie, g.redis)

\* Handler.GetMe that takes a failed IsUserAdmin for an administrator
GetMeOn_failopen(req, r, t, fault, dbFault, debugFault, adminFault) ==
  LET sessionToken == extractSessionToken(req)
  IN IF sessionToken = Empty
       THEN Reply(401, ErrBody("Authorization header required"), NoCookie, r)
     ELSE
       LET g == GetUserBySession(r, sessionToken, t, fault, dbFault)
       IN IF g.err # "" THEN SessionErrorReply(g.err, g.redis)
          ELSE
            LET a == IsUserAdmin(g.user.ID, adminFault)
                isAdmin0 == IF a.err # "" THEN TRUE ELSE a.admin
                d == GetDebugMode(debugFault)
                isAdmin == IF isAdmin0 THEN TRUE
                           ELSE IF forceDebugMode THEN TRUE
                           ELSE d.err = "" /\ d.enabled
                c == GetContactByTelegramID(g.user.TelegramID, dbFault)
            IN Reply(200,
                     [Body EXCEPT !.id = g.user.ID,
                                  !.telegram_id = g.user.TelegramID,
                                  !.is_active = g.user.IsActive,
                                  !.is_admin = isAdmin,
                                  !.contact_id = c.contact.ID],
                     NoCookie, g.redis)

\* Handler.GetMe; debugFault and adminFault: the statements of GetDebugMode,
\* of IsUserAdmin fail
GetMeOn(req, r, t, fault, dbFault, debugFault, adminFault) ==
  LET sessionToken == extractSessionToken(req)
  IN IF sessionToken = Empty
       THEN Reply(401, ErrBody("Authorization header required"), NoCookie, r)
     ELSE
       LET g == GetUserBySession(r, sessionToken, t, fault, dbFault)
       IN IF g.err # "" THEN SessionErrorReply(g.err, g.redis)
          ELSE
            LET a == IsUserAdmin(g.user.ID, adminFault)
                isAdmin0 == IF a.err # "" THEN FALSE ELSE a.admin
                d == GetDebugMode(debugFault)
                isAdmin == IF isAdmin0 THEN TRUE
                           ELSE IF forceDebugMode THEN TRUE
                           ELSE d.err = "" /\ d.enabled
                c == GetContactByTelegramID(g.user.TelegramID, dbFault)
            IN Reply(200,
                     [Body EXCEPT !.id = g.user.ID,
                                  !.telegram_id = g.user.TelegramID,
                                  !.is_active = g.user.IsActive,
                                  !.is_admin = isAdmin,
                                  !.contact_id = c.contact.ID],
                     NoCookie, g.redis)

GetMe(req, r, t, fault, dbFault) == GetMeOn(req, r, t, fault, dbFault, dbFault, dbFault)

\* Handler.GetCSRFToken
GetCSRFToken(req, r, hexRandom) ==
  LET sessionToken == extractSessionToken(req)
  IN IF sessionToken = Empty
       THEN Reply(401, ErrBody("Session required"), NoCookie, r)
     ELSE LET c == generateCSRFToken(sessionToken, hexRandom)
          IN IF c.panic THEN Reply(Panicked, Body, NoCookie, r)
             ELSE Reply(200, [Body EXCEPT !.csrf_token = c.token], NoCookie, r)

\* Handler.Logout, behind CSRFMiddleware (main.go: authRoutes.Use)
LogoutHandler(req, r, t, fault) ==
  LET sessionToken == extractSessionToken(req)
  IN IF sessionToken = Empty
       THEN Reply(401, ErrBody("Authorization header required"), NoCookie, r)
     ELSE LET o == Logout(r, sessionToken, fault)
          IN IF o.err # "" THEN Reply(500, ErrBody("Internal server error"), NoCookie, r)
             ELSE Reply(200, [Body EXCEPT !.message = "Successfully logged out"],
                        ClearCookie(t), o.redis)

\* POST /api/v1/auth/logout as routed: CSRFMiddleware, then Handler.Logout
LogoutRoute(req, r, t, fault) ==
  LET c == CSRFMiddleware("POST", PathLogout, req)
  IN IF c = "panic" THEN Reply(Panicked, Body, NoCookie, r)
     ELSE IF c = "forbidden" THEN Reply(403, ErrBody("Invalid CSRF token"), NoCookie, r)
     ELSE LogoutHandler(req, r, t, fault)

(***************************************************************************)
(* Directory: groups and contacts.  Rows keep their place in the table     *)
(* when soft-deleted (Deleted = TRUE); the unique indexes span them too.   *)
(***************************************************************************)
NameAnn == <<"A", "n", "n">>
NameBob == <<"B", "o", "b">>
Blank == <<" ", " ">>
PhoneA == <<"+", "7", "1">>
PhoneB == <<"+", "7", "2">>
MailA == <<"a", "@", "x">>
MailB == <<"b", "@", "x">>

\* optional (pointer) fields of a request: None = not sent
None == << >>
Some(x) == <<x>>

RECURSIVE TrimLeft(_)
TrimLeft(s) == IF s # Empty /\ Head(s) = " " THEN TrimLeft(Tail(s)) ELSE s

RECURSIVE TrimRight(_)
TrimRight(s) ==
  IF s # Empty /\ s[Len(s)] = " " THEN TrimRight(SubSeq(s, 1, Len(s) - 1)) ELSE s

\* strings.TrimSpace
TrimSpace(s) == TrimRight(TrimLeft(s))

Live(table) == {i \in 1..Len(table) : ~table[i].Deleted}

\* groupRepo.GetByID
GroupGetByID(id) ==
  IF id \in Live(groups) THEN [group |-> groups[id], err |-> ""]
  ELSE [group |-> NoGroup, err |-> "record not found"]

\* groupRepo.GetByName
GroupGetByName(name) ==
  LET hits == {i \in Live(groups) : groups[i].Name = name}
  IN IF hits = {} THEN [group |-> NoGroup, err |-> "record not found"]
     ELSE [group |-> groups[CHOOSE i \in hits : \A j \in hits : i <= j], err |-> ""]

\* groupRepo.Create under the unique index on groups.name
GroupCreate(name) ==
  IF \E i \in 1..Len(groups) : groups[i].Name = name
    THEN [group |-> NoGroup, err |-> "UNIQUE constraint failed: groups.name", groups |-> groups]
  ELSE LET row == [ID |-> Len(groups) + 1, Name |-> name, Deleted |-> FALSE]
       IN [group |-> row, err |-> "", groups |-> Append(groups, row)]

\* groupUseCase.CreateGroup
CreateGroup(name0) ==
  LET name == TrimSpace(name0)
  IN IF name = Empty THEN [group |-> NoGroup, err |-> "ErrGroupNameEmpty", groups |-> groups]
     ELSE IF GroupGetByName(name).err = "" 
       THEN [group |-> NoGroup, err |-> "ErrGroupNameExists", groups |-> groups]
     ELSE GroupCreate(name)

\* groupUseCase.UpdateGroup over groupRepo.Update (Save)
UpdateGroup(id, newName0) ==
  LET newName == TrimSpace(newName0)
      g == GroupGetByID(id)
      e == GroupGetByName(newName)
  IN IF newName = Empty THEN [group |-> NoGroup, err |-> "ErrGroupNameEmpty", groups |-> groups]
     ELSE IF g.err # "" THEN [group |-> NoGroup, err |-> "ErrGroupNotFound", groups |-> groups]
     ELSE IF g.group.Name = newName THEN [group |-> g.group, err |-> "", groups |-> groups]
     ELSE IF e.err = "" /\ e.group.ID # id
       THEN [group |-> NoGroup, err |-> "ErrGroupNameExists", groups |-> groups]
     ELSE IF \E i \in 1..Len(groups) : i # id /\ groups[i].Name = newName
       THEN [group |-> NoGroup, err |-> "UNIQUE constraint failed: groups.name",
             groups |-> groups]
     ELSE [group |-> [g.group EXCEPT !.Name = newName], err |-> "",
           groups |-> [groups EXCEPT ![id].Name = newName]]

\* groupUseCase.DeleteGroup over groupRepo.Delete (soft delete)
DeleteGroup(id) ==
  IF GroupGetByID(id).err # "" THEN [err |-> "ErrGroupNotFound", groups |-> groups]
  ELSE [err |-> "", groups |-> [groups EXCEPT ![id].Deleted = TRUE]]

\* contactRepo.GetByID, with Preload("Groups"): the live groups of the row
ContactGetByID(id) ==
  IF id \in Live(contacts)
    THEN [contact |-> [contacts[id] EXCEPT !.Groups = @ \cap Live(groups)], err |-> ""]
  ELSE [contact |-> NoContact, err |-> "record not found"]

\* contactRepo.GetByEmail
GetByEmail(email) ==
  LET hits == {i \in Live(contacts) : contacts[i].Email = email}
  IN IF hits = {} THEN [contact |-> NoContact, err |-> "record not found"]
     ELSE [contact |-> contacts[CHOOSE i \in hits : \A j \in hits : i <= j], err |-> ""]

\* contactRepo.GetByPhone
GetByPhone(phone) ==
  LET hits == {i \in Live(contacts) : contacts[i].Phone = phone}
  IN IF hits = {} THEN [contact |-> NoContact, err |-> "record not found"]
     ELSE [contact |-> contacts[CHOOSE i \in hits : \A j \in hits : i <= j], err |-> ""]

\* The unique indexes of contacts (phone, email, telegram_id) admit row c
\* next to every row but the one numbered self.
UniqueOK(c, self) ==
  \A i \in 1..Len(contacts) :
    i # self => /\ contacts[i].Phone # c.Phone
                /\ contacts[i].Email # c.Email
                /\ contacts[i].TelegramID # c.TelegramID

\* contactRepo.Create
ContactCreate(contact) ==
  IF ~UniqueOK(contact, 0)
    THEN [contact |-> NoContact, err |-> "UNIQUE constraint failed: contacts",
          contacts |-> contacts]
  ELSE LET row == [contact EXCEPT !.ID = Len(contacts) + 1]
       IN [contact |-> row, err |-> "", contacts |-> Append(contacts, row)]

\* contactRepo.Update: writes Name, Phone, Email (never TelegramID) and, when
\* the contact carries a Groups slice, replaces its memberships.
\* contactRepo.Update that also writes the TelegramID column
ContactUpdate_telegram(contact, withGroups) ==
  LET old == contacts[contact.ID]
      row == [old EXCEPT !.Name = contact.Name, !.Phone = contact.Phone,
                         !.Email = contact.Email, !.TelegramID = contact.TelegramID,
                         !.Groups = IF withGroups THEN contact.Groups ELSE @]
  IN IF ~UniqueOK(row, contact.ID)
       THEN [err |-> "UNIQUE constraint failed: contacts", contacts |-> contacts]
     ELSE [err |-> "", contacts |-> [contacts EXCEPT ![contact.ID] = row]]

ContactUpdate(contact, withGroups) ==
  LET old == contacts[contact.ID]
      row == [old EXCEPT !.Name = contact.Name, !.Phone = contact.Phone,
                         !.Email = contact.Email,
                         !.Groups = IF withGroups THEN contact.Groups ELSE @]
  IN IF ~UniqueOK(row, contact.ID)
       THEN [err |-> "UNIQUE constraint failed: contacts", contacts |-> contacts]
     ELSE [err |-> "", contacts |-> [contacts EXCEPT ![contact.ID] = row]]

\* The result of a contact use-case method
ContactErr(e) == [contact |-> NoContact, err |-> e, contacts |-> contacts]

\* contactUseCase.CreateContact; data = [Name, Phone, Email, GroupIDs]
CreateContact(data) ==
  LET name == TrimSpace(data.Name)
      phone == TrimSpace(data.Phone)
      email == TrimSpace(data.Email)
  IN IF name = Empty THEN ContactErr("ErrContactNameEmpty")
     ELSE IF phone = Empty THEN ContactErr("ErrContactPhoneEmpty")
     ELSE IF email = Empty THEN ContactErr("ErrContactEmailEmpty")
     ELSE IF GetByEmail(email).err = "" THEN ContactErr("ErrContactEmailExists")
     ELSE IF GetByPhone(phone).err = "" THEN ContactErr("ErrContactPhoneExists")
     ELSE IF \E g \in data.GroupIDs : GroupGetByID(g).err # ""
       THEN ContactErr("ErrGroupNotFound")
     ELSE ContactCreate([ID |-> 0, TelegramID |-> 0, Name |-> name, Phone |-> phone,
                         Email |-> email, Groups |-> data.GroupIDs, Deleted |-> FALSE])

\* contactUseCase.UpdateContact; the fields of data are None or Some(value)
UpdateContact(id, data) ==
  LET c0 == ContactGetByID(id)
      name == IF data.Name = None THEN Empty ELSE TrimSpace(data.Name[1])
      email == IF data.Email = None THEN Empty ELSE TrimSpace(data.Email[1])
      phone == IF data.Phone = None THEN Empty ELSE TrimSpace(data.Phone[1])
      byEmail == GetByEmail(email)
      byPhone == GetByPhone(phone)
      c1 == IF data.Name # None THEN [c0.contact EXCEPT !.Name = name] ELSE c0.contact
      c2 == IF data.Email # None THEN [c1 EXCEPT !.Email = email] ELSE c1
      c3 == IF data.Phone # None THEN [c2 EXCEPT !.Phone = phone] ELSE c2
      c4 == IF data.GroupIDs # None THEN [c3 EXCEPT !.Groups = data.GroupIDs[1]] ELSE c3
      changed == c3 # c0.contact \/ data.GroupIDs # None
  IN IF c0.err # "" THEN ContactErr("ErrContactNotFound")
     ELSE IF data.Name # None /\ name = Empty THEN ContactErr("ErrContactNameEmpty")
     ELSE IF data.Email # None /\ email = Empty THEN ContactErr("ErrContactEmailEmpty")
     ELSE IF data.Email # None /\ c0.contact.Email # email /\ byEmail.err = ""
             /\ byEmail.contact.ID # id
       THEN ContactErr("ErrContactEmailExists")
     ELSE IF data.Phone # None /\ phone = Empty THEN ContactErr("ErrContactPhoneEmpty")
     ELSE IF data.Phone # None /\ c0.contact.Phone # phone /\ byPhone.err = ""
             /\ byPhone.contact.ID # id
       THEN ContactErr("ErrContactPhoneExists")
     ELSE IF data.GroupIDs # None /\ \E g \in data.GroupIDs[1] : GroupGetByID(g).err # ""
       THEN ContactErr("ErrGroupNotFound")
     ELSE IF ~changed THEN [contact |-> c0.contact, err |-> "", contacts |-> contacts]
     ELSE LET u == ContactUpdate(c4, TRUE)
          IN IF u.err # "" THEN ContactErr(u.err)
             ELSE [contact |-> c4, err |-> "", contacts |-> u.contacts]

\* contactUseCase.DeleteContact over contactRepo.Delete (soft delete)
DeleteContact(id) ==
  IF ContactGetByID(id).err # "" THEN [err |-> "ErrContactNotFound", contacts |-> contacts]
  ELSE [err |-> "", contacts |-> [contacts EXCEPT ![id].Deleted = TRUE]]

\* contactUseCase.AddContactToGroup
AddContactToGroup(contactID, groupID) ==
  LET c == ContactGetByID(contactID)
  IN IF c.err # "" THEN [err |-> "ErrContactNotFound", contacts |-> contacts]
     ELSE IF GroupGetByID(groupID).err # ""
       THEN [err |-> "ErrGroupNotFound", contacts |-> contacts]
     ELSE IF groupID \in c.contact.Groups THEN [err |-> "", contacts |-> contacts]
     ELSE [err |-> "", contacts |-> [contacts EXCEPT ![contactID].Groups = @ \cup {groupID}]]

\* contactUseCase.RemoveContactFromGroup
RemoveContactFromGroup(contactID, groupID) ==
  LET c == ContactGetByID(contactID)
  IN IF c.err # "" THEN [err |-> "ErrContactNotFound", contacts |-> contacts]
     ELSE IF GroupGetByID(groupID).err # ""
       THEN [err |-> "ErrGroupNotFound", contacts |-> contacts]
     ELSE IF groupID \notin c.contact.Groups
       THEN [err |-> "contact is not a member of group", contacts |-> contacts]
     ELSE [err |-> "", contacts |-> [contacts EXCEPT ![contactID].Groups = @ \ {groupID}]]

\* authUseCase.UpdateUserContact; data = [Name, Phone, Email, TelegramID],
\* each None or Some(value)
UpdateUserContact(userID, data, dbFault) ==
  LET gu == GetUserByID(userID, dbFault)
      gc == GetByTelegramID(gu.user.TelegramID, dbFault)
      name == IF data.Name = None THEN Empty ELSE TrimSpace(data.Name[1])
      email == IF data.Email = None THEN Empty ELSE TrimSpace(data.Email[1])
      phone == IF data.Phone = None THEN Empty ELSE TrimSpace(data.Phone[1])
      newEmail == email # Empty /\ gc.contact.Email # email
      newPhone == phone # Empty /\ gc.contact.Phone # phone
      byEmail == GetByEmail(email)
      byPhone == GetByPhone(phone)
      c1 == IF name # Empty THEN [gc.contact EXCEPT !.Name = name] ELSE gc.contact
      c2 == IF newEmail THEN [c1 EXCEPT !.Email = email] ELSE c1
      c3 == IF newPhone THEN [c2 EXCEPT !.Phone = phone] ELSE c2
      c4 == IF data.TelegramID # None THEN [c3 EXCEPT !.TelegramID = data.TelegramID[1]] ELSE c3
  IN IF gu.err # "" THEN ContactErr(gu.err)
     ELSE IF gc.err = "record not found" THEN ContactErr("ErrContactNotFound")
     ELSE IF gc.err # "" THEN ContactErr(gc.err)
     ELSE IF newEmail /\ byEmail.err = "" /\ byEmail.contact.ID # gc.contact.ID
       THEN ContactErr("email already exists")
     ELSE IF newPhone /\ byPhone.err = "" /\ byPhone.contact.ID # gc.contact.ID
       THEN ContactErr("phone already exists")
     ELSE IF c4 = gc.contact THEN [contact |-> gc.contact, err |-> "", contacts |-> contacts]
     ELSE LET u == ContactUpdate(c4, FALSE)
          IN IF dbFault THEN ContactErr("database is locked")
             ELSE IF u.err # "" THEN ContactErr(u.err)
             ELSE [contact |-> c4, err |-> "", contacts |-> u.contacts]

(***************************************************************************)
(* Directory handlers and their routes (main.go).  Each yields the         *)
(* response and the tables after.                                          *)
(***************************************************************************)
Dir(status, body, cookie, r, c, g, st) ==
  [status |-> status, body |-> body, setCookie |-> cookie, redis |-> r,
   contacts |-> c, groups |-> g, settings |-> st]

\* ErrorResponse{Message: m}
MsgBody(m) == [Body EXCEPT !.message = m]

RECURSIVE ParseDigits(_, _)
ParseDigits(s, acc) ==
  IF s = Empty THEN acc
  ELSE ParseDigits(Tail(s), 10 * acc + (CHOOSE d \in 0..9 : Digit[d + 1] = Head(s)))

\* strconv.ParseUint(s, 10, 32)
ParseUint(s) ==
  IF s = Empty \/ \E k \in 1..Len(s) : \A d \in 1..10 : Digit[d] # s[k]
    THEN [ok |-> FALSE, n |-> 0]
  ELSE [ok |-> TRUE, n |-> ParseDigits(s, 0)]

\* validate:"required,min=1,max=100" on the name of a group request
GroupMinName == 1

NameMax == 100

ValidGroupName(name) == Len(name) >= GroupMinName /\ Len(name) <= NameMax

\* group Handler.CreateGroup
CreateGroupHandler(parsed, name, r) ==
  IF ~parsed THEN Dir(400, MsgBody("Invalid request body"), NoCookie, r, contacts, groups, settings)
  ELSE IF ~ValidGroupName(name)
    THEN Dir(400, MsgBody("Validation failed"), NoCookie, r, contacts, groups, settings)
  ELSE LET o == CreateGroup(name)
       IN IF o.err = "ErrGroupNameEmpty"
            THEN Dir(400, MsgBody(o.err), NoCookie, r, contacts, groups, settings)
          ELSE IF o.err = "ErrGroupNameExists"
            THEN Dir(409, MsgBody(o.err), NoCookie, r, contacts, groups, settings)
          ELSE IF o.err # ""
            THEN Dir(500, MsgBody("Internal server error"), NoCookie, r, contacts, groups, settings)
          ELSE Dir(201, [Body EXCEPT !.id = o.group.ID, !.name = o.group.Name], NoCookie, r,
                   contacts, o.groups, settings)

\* group Handler.UpdateGroup
UpdateGroupHandler(idStr, parsed, name, r) ==
  LET id == ParseUint(idStr)
  IN IF ~id.ok
       THEN Dir(400, MsgBody("Invalid group ID format"), NoCookie, r, contacts, groups, settings)
     ELSE IF ~parsed
       THEN Dir(400, MsgBody("Invalid request body"), NoCookie, r, contacts, groups, settings)
     ELSE IF ~ValidGroupName(name)
       THEN Dir(400, MsgBody("Validation failed"), NoCookie, r, contacts, groups, settings)
     ELSE LET o == UpdateGroup(id.n, name)
          IN IF o.err = "ErrGroupNotFound"
               THEN Dir(404, MsgBody(o.err), NoCookie, r, contacts, groups, settings)
             ELSE IF o.err = "ErrGroupNameEmpty"
               THEN Dir(400, MsgBody(o.err), NoCookie, r, contacts, groups, settings)
             ELSE IF o.err = "ErrGroupNameExists"
               THEN Dir(409, MsgBody(o.err), NoCookie, r, contacts, groups, settings)
             ELSE IF o.err # ""
               THEN Dir(500, MsgBody("Internal server error"), NoCookie, r, contacts, groups,
                        settings)
             ELSE Dir(200, [Body EXCEPT !.id = o.group.ID, !.name = o.group.Name], NoCookie, r,
                      contacts, o.groups, settings)

\* group Handler.DeleteGroup
DeleteGroupHandler(idStr, r) ==
  LET id == ParseUint(idStr)
  IN IF ~id.ok
       THEN Dir(400, MsgBody("Invalid group ID format"), NoCookie, r, contacts, groups, settings)
     ELSE LET o == DeleteGroup(id.n)
          IN IF o.err = "ErrGroupNotFound"
               THEN Dir(404, MsgBody(o.err), NoCookie, r, contacts, groups, settings)
             ELSE IF o.err # ""
               THEN Dir(500, MsgBody("Internal server error"), NoCookie, r, contacts, groups,
                        settings)
             ELSE Dir(204, Body, NoCookie, r, contacts, o.groups, settings)

\* validate:"required,min=2,max=100" on the name of a contact request
ContactMinName == 2

\* validate:"e164": a plus sign and digits
ValidE164(s) ==
  /\ Len(s) >= 2
  /\ Head(s) = "+"
  /\ \A k \in 2..Len(s) : \E d \in 1..10 : Digit[d] = s[k]

\* validate:"email": something on both sides of one @
ValidEmail(s) ==
  \E k \in 2..(Len(s) - 1) : s[k] = "@" /\ \A j \in 1..Len(s) : j # k => s[j] # "@"

ValidCreateContact(data) ==
  /\ Len(data.Name) >= ContactMinName /\ Len(data.Name) <= NameMax
  /\ ValidE164(data.Phone)
  /\ ValidEmail(data.Email)

\* omitempty: a field not sent, or sent empty, is not validated
ValidUpdateContact(data) ==
  /\ data.Name = None \/ data.Name[1] = Empty
       \/ (Len(data.Name[1]) >= ContactMinName /\ Len(data.Name[1]) <= NameMax)
  /\ data.Phone = None \/ data.Phone[1] = Empty \/ ValidE164(data.Phone[1])
  /\ data.Email = None \/ data.Email[1] = Empty \/ ValidEmail(data.Email[1])

DirErr(status, m, cookie, r) == Dir(status, MsgBody(m), cookie, r, contacts, groups, settings)

\* contact Handler.CreateContact; cookie is what the middlewares have set
CreateContactHandler(parsed, data, r, cookie) ==
  IF ~parsed THEN DirErr(400, "Invalid request body", cookie, r)
  ELSE IF ~ValidCreateContact(data) THEN DirErr(400, "Validation failed", cookie, r)
  ELSE LET o == CreateContact(data)
       IN IF o.err \in {"ErrContactNameEmpty", "ErrContactPhoneEmpty", "ErrContactEmailEmpty"}
            THEN DirErr(400, o.err, cookie, r)
          ELSE IF o.err \in {"ErrContactEmailExists", "ErrContactPhoneExists"}
            THEN DirErr(409, o.err, cookie, r)
          ELSE IF o.err = "ErrGroupNotFound" THEN DirErr(404, o.err, cookie, r)
          ELSE IF o.err # "" THEN DirErr(500, "Internal server error", cookie, r)
          ELSE Dir(201, [Body EXCEPT !.id = o.contact.ID, !.name = o.contact.Name], cookie, r,
                   o.contacts, groups, settings)

\* contact Handler.UpdateContact
UpdateContactHandler(idStr, parsed, data, r, cookie) ==
  LET id == ParseUint(idStr)
  IN IF ~id.ok THEN DirErr(400, "Invalid contact ID format", cookie, r)
     ELSE IF ~parsed THEN DirErr(400, "Invalid request body", cookie, r)
     ELSE IF ~ValidUpdateContact(data) THEN DirErr(400, "Validation failed", cookie, r)
     ELSE LET o == UpdateContact(id.n, data)
          IN IF o.err \in {"ErrContactNotFound", "ErrGroupNotFound"}
               THEN DirErr(404, o.err, cookie, r)
             ELSE IF o.err \in {"ErrContactNameEmpty", "ErrContactPhoneEmpty",
                                "ErrContactEmailEmpty"}
               THEN DirErr(400, o.err, cookie, r)
             ELSE IF o.err \in {"ErrContactEmailExists", "ErrContactPhoneExists"}
               THEN DirErr(409, o.err, cookie, r)
             ELSE IF o.err # "" THEN DirErr(500, "Internal server error", cookie, r)
             ELSE Dir(200, [Body EXCEPT !.id = o.contact.ID, !.name = o.contact.Name], cookie,
                      r, o.contacts, groups, settings)

\* contact Handler.DeleteContact
DeleteContactHandler(idStr, r, cookie) ==
  LET id == ParseUint(idStr)
  IN IF ~id.ok THEN DirErr(400, "Invalid contact ID format", cookie, r)
     ELSE LET o == DeleteContact(id.n)
          IN IF o.err = "ErrContactNotFound" THEN DirErr(404, o.err, cookie, r)
             ELSE IF o.err # "" THEN DirErr(500, "Internal server error", cookie, r)
             ELSE Dir(204, Body, cookie, r, o.contacts, groups, settings)

\* contact Handler.AddContactToGroup
AddContactToGroupHandler(contactIDStr, groupIDStr, r, cookie) ==
  LET contactID == ParseUint(contactIDStr)
      groupID == ParseUint(groupIDStr)
  IN IF ~contactID.ok THEN DirErr(400, "Invalid contact ID format", cookie, r)
     ELSE IF ~groupID.ok THEN DirErr(400, "Invalid group ID format", cookie, r)
     ELSE LET o == AddContactToGroup(contactID.n, groupID.n)
          IN IF o.err \in {"ErrContactNotFound", "ErrGroupNotFound"}
               THEN DirErr(404, o.err, cookie, r)
             ELSE IF o.err # "" THEN DirErr(500, "Internal server error", cookie, r)
             ELSE Dir(204, Body, cookie, r, o.contacts, groups, settings)

\* contact Handler.RemoveContactFromGroup
RemoveContactFromGroupHandler(contactIDStr, groupIDStr, r, cookie) ==
  LET contactID == ParseUint(contactIDStr)
      groupID == ParseUint(groupIDStr)
  IN IF ~contactID.ok THEN DirErr(400, "Invalid contact ID format", cookie, r)
     ELSE IF ~groupID.ok THEN DirErr(400, "Invalid group ID format", cookie, r)
     ELSE LET o == RemoveContactFromGroup(contactID.n, groupID.n)
          IN IF o.err \in {"ErrContactNotFound", "ErrGroupNotFound"}
               THEN DirErr(404, o.err, cookie, r)
             ELSE IF o.err = "contact is not a member of group"
               THEN DirErr(400, o.err, cookie, r)
             ELSE IF o.err # "" THEN DirErr(500, "Internal server error", cookie, r)
             ELSE Dir(204, Body, cookie, r, o.contacts, groups, settings)

\* system Handler.SetDebugMode
SetDebugModeHandler(parsed, enabled, r, cookie) ==
  IF ~parsed
    THEN Dir(400, ErrBody("Invalid request body"), cookie, r, contacts, groups, settings)
  ELSE LET o == SetDebugMode(enabled, FALSE)
       IN IF o.err # ""
            THEN Dir(500, ErrBody("Internal server error"), cookie, r, contacts, groups,
                     settings)
          ELSE Dir(200, [Body EXCEPT !.enabled = enabled], cookie, r, contacts, groups,
                   o.settings)

\* auth Handler.UpdateMyContact
UpdateMyContact(req, parsed, data, r, t, cookie) ==
  LET sessionToken == extractSessionToken(req)
      g == GetUserBySession(r, sessionToken, t, FALSE, FALSE)
      e == SessionErrorReply(g.err, g.redis)
      o == UpdateUserContact(g.user.ID, data, FALSE)
  IN IF sessionToken = Empty
       THEN Dir(401, ErrBody("Authorization header required"), cookie, r, contacts, groups,
                settings)
     ELSE IF g.err # ""
       THEN Dir(e.status, e.body, cookie, e.redis, contacts, groups, settings)
     ELSE IF ~parsed
       THEN Dir(400, ErrBody("Invalid request body"), cookie, g.redis, contacts, groups,
                settings)
     ELSE IF o.err = "ErrContactNotFound"
       THEN Dir(404, ErrBody("Contact not found"), cookie, g.redis, contacts, groups, settings)
     ELSE IF o.err # ""
       THEN Dir(500, ErrBody("Internal server error"), cookie, g.redis, contacts, groups,
                settings)
     ELSE Dir(200, [Body EXCEPT !.id = o.contact.ID, !.name = o.contact.Name,
                                !.telegram_id = o.contact.TelegramID],
              cookie, g.redis, o.contacts, groups, settings)

\* The answer of a middleware that stopped the chain
Blocked(m) == Dir(m.status, m.body, m.setCookie, m.redis, contacts, groups, settings)

\* c.Cookie after c.Cookie: the later Set-Cookie stands
LaterCookie(first, second) == IF second.set THEN second ELSE first

\* CSRFMiddleware as a link of a chain
CSRFLink(method, path, req, r, cookie) ==
  LET c == CSRFMiddleware(method, path, req)
  IN IF c = "panic" THEN Stop(Panicked, Body, NoCookie, r)
     ELSE IF c = "forbidden" THEN Stop(403, ErrBody("Invalid CSRF token"), cookie, r)
     ELSE Pass(cookie, r, NoUser)

\* The chain in front of the mutating contact routes: CookieAuthMiddleware,
\* CSRFMiddleware, RequireAuthCookie, requireAdminOrDebug.
ContactGuards(method, path, req, r, t) ==
  LET m1 == CookieAuthMiddleware(req, r, t, FALSE, FALSE)
      m2 == CSRFLink(method, path, req, m1.redis, m1.setCookie)
      m3 == RequireAuthCookie(req, m1.redis, t, FALSE, FALSE)
      cookie == LaterCookie(m1.setCookie, m3.setCookie)
  IN IF ~m2.next THEN m2
     ELSE IF ~m3.next THEN [m3 EXCEPT !.setCookie = cookie]
     ELSE requireAdminOrDebug(m3.user, m3.redis, cookie, FALSE)

\* The chain in front of PUT /system/debug-mode: CSRFMiddleware,
\* RequireAuthCookie, requireAdminOrDebug.
SystemGuardsOn(req, r, t, debugFault, adminFault) ==
  LET m1 == CSRFLink("PUT", PathDebugMode, req, r, NoCookie)
      m2 == RequireAuthCookie(req, r, t, FALSE, FALSE)
  IN IF ~m1.next THEN m1
     ELSE IF ~m2.next THEN m2
     ELSE IF debugFault \/ adminFault
       THEN requireAdminOrDebugOn(m2.user, m2.redis, m2.setCookie, debugFault, adminFault)
     ELSE requireAdminOrDebug(m2.user, m2.redis, m2.setCookie, FALSE)

SystemGuards(req, r, t) == SystemGuardsOn(req, r, t, FALSE, FALSE)

\* The chain in front of PUT /auth/contact: CSRFMiddleware, RequireAuthCookie.
AuthContactGuards(req, r, t) ==
  LET m1 == CSRFLink("PUT", PathAuthContact, req, r, NoCookie)
  IN IF ~m1.next THEN m1 ELSE RequireAuthCookie(req, r, t, FALSE, FALSE)

(***************************************************************************)
(* Inputs of the model.                                                    *)
(***************************************************************************)
\* Session tokens a client may present: every pool UUID, issued or not.
PresentTokens == UUIDPool

Bearer(tok) == BearerPrefix \o tok

\* hex.EncodeToString of the 16 random bytes of a CSRF token
HexRandoms == {Rep("0", CSRFHexLen)}

CSRFHeaders ==
  {Empty} \cup {generateCSRFToken(tok, h).token : tok \in PresentTokens, h \in HexRandoms}

\* Requests that carry at most one credential: none, a session_token cookie
\* or an Authorization: Bearer header.
GetReqs ==
  {NoReq} \cup {[NoReq EXCEPT !.cookie = tok] : tok \in PresentTokens}
          \cup {[NoReq EXCEPT !.authorization = Bearer(tok)] : tok \in PresentTokens}

\* The same with an X-CSRF-Token header or none.
WriteReqs == {[q EXCEPT !.csrf = c] : q \in GetReqs, c \in CSRFHeaders}

\* The store or the database a request finds failing.
Faults == {"none", "redis", "db"}

\* The hash a client sends with the claim fields c.
SignedHash(c, secret) ==
  HexEncodeToString(HMACSHA256(SHA256(secret), createDataCheckString(c)))

HashKinds == {"good", "flipped", "wrongkey", "wrongdata"}

ClaimHash(c, kind) ==
  IF kind = "good" THEN SignedHash(c, BotSecret)
  ELSE IF kind = "flipped" THEN [SignedHash(c, BotSecret) EXCEPT !.altered = 1]
  ELSE IF kind = "wrongkey" THEN SignedHash(c, <<"X">>)
  ELSE SignedHash([c EXCEPT !.ID = c.ID + 1], BotSecret)

Claim(id, first, user, date, kind) ==
  LET c == [ID |-> id, FirstName |-> first, LastName |-> Empty, Username |-> user,
            PhotoURL |-> Empty, AuthDate |-> date, Hash |-> HexEncodeToString(SHA256(Empty))]
  IN [c EXCEPT !.Hash = ClaimHash(c, kind)]

\* The instants (in hours) the clock of the model visits: the start, the
\* moment a session made at the start reaches its expiry, and an hour later.
Instants == {0, SessionLifetime, SessionLifetime + 1}

\* What a request was about: the Telegram ID or row ID it names, and the
\* rest of its payload.
NoArg == [id |-> 0, name |-> Empty, other |-> 0, flag |-> FALSE]

\* The last operation served: its route (or use-case method), its request and
\* payload, the fault it met, and the response.  NoResp after a step of the
\* environment.
NoResp ==
  [route |-> "", req |-> NoReq, arg |-> NoArg, fault |-> "none", status |-> 0,
   body |-> Body, setCookie |-> NoCookie]

Served(route, req, arg, f, o) ==
  [route |-> route, req |-> req, arg |-> arg, fault |-> f, status |-> o.status,
   body |-> o.body, setCookie |-> o.setCookie]


(***************************************************************************)
(* Initial state: a fresh process over a seeded directory (one Directory   *)
(* Entry for Telegram ID 42, member of the administrators group), an empty *)
(* users table, an empty Redis.                                            *)
(***************************************************************************)
NoCall == [fn |-> "", authData |-> Claim(0, Empty, Empty, 0, "good"), ok |-> FALSE]

Init ==
  /\ now = 0
  /\ redis = [k \in {} |-> 0]
  /\ users = << >>
  /\ contacts = <<[ID |-> 1, TelegramID |-> 42, Name |-> NameAnn, Phone |-> PhoneA,
                   Email |-> MailA, Groups |-> {1}, Deleted |-> FALSE]>>
  /\ groups = <<[ID |-> 1, Name |-> AdminGroupName, Deleted |-> FALSE]>>
  /\ settings = [k \in {} |-> ""]
  /\ forceDebugMode = FALSE
  /\ issued = {}
  /\ resp = NoResp
  /\ call = NoCall
  /\ ret = NoCall

(***************************************************************************)
(* Environment.                                                            *)
(***************************************************************************)
\* Time passes.
Tick ==
  /\ \E t \in Instants : t > now /\ t <= MaxTime /\ now' = t
  /\ resp' = NoResp
  /\ UNCHANGED <<redis, users, contacts, groups, settings, forceDebugMode, issued, call, ret>>

\* Redis drops a key whose TTL has elapsed.
RedisExpire ==
  /\ \E k \in DOMAIN redis : now >= redis[k].expireAt /\ redis' = RedisDel(redis, k)
  /\ resp' = NoResp
  /\ UNCHANGED <<now, users, contacts, groups, settings, forceDebugMode, issued, call, ret>>

(***************************************************************************)
(* Auth routes.                                                            *)
(***************************************************************************)
\* The value uuid.New() returns next: the pool in order, Empty once the
\* pool is used up (no further login gets as far as minting a token then).
NextUUID ==
  IF Cardinality(issued) < MaxSessions THEN UUID(Cardinality(issued) + 1) ELSE Empty

\* Login requests: an unparsable body, or a claim that is well signed and
\* fresh, well signed and stale, or fresh with an altered hash.
LoginInputs ==
  {[parsed |-> FALSE, id |-> 0, age |-> 0, kind |-> "good", f |-> "none"]}
    \cup [parsed : {TRUE}, id : TelegramIDs, age : {0}, kind : {"good", "flipped"}, f : Faults]
    \cup [parsed : {TRUE}, id : TelegramIDs, age : {AuthMaxAge + 1}, kind : {"good"},
          f : {"none"}]

\* POST /api/v1/auth/telegram
ReqAuthWithTelegram ==
  \E in \in LoginInputs :
    LET a == Claim(in.id, Empty, Empty, now - in.age, in.kind)
        o == AuthWithTelegram(in.parsed, a, NextUUID, now, in.f = "redis", in.f = "db")
    IN /\ NextUUID = Empty => o.issued = issued
       /\ redis' = o.redis
       /\ users' = o.users
       /\ issued' = o.issued
       /\ resp' = Served("POST /auth/telegram", NoReq, [NoArg EXCEPT !.id = in.id], in.f, o)
       /\ UNCHANGED <<now, contacts, groups, settings, forceDebugMode, call, ret>>

\* GET /api/v1/auth/me
ReqGetMe ==
  \E req \in GetReqs :
    \E o \in {GetMe(req, redis, now, FALSE, FALSE)} :
       /\ redis' = o.redis
       /\ resp' = Served("GET /auth/me", req, NoArg, "none", o)
       /\ UNCHANGED <<now, users, contacts, groups, settings, forceDebugMode, issued, call, ret>>

\* POST /api/v1/auth/logout
ReqLogout ==
  \E req \in WriteReqs :
    \E o \in {LogoutRoute(req, redis, now, FALSE)} :
       /\ redis' = o.redis
       /\ resp' = Served("POST /auth/logout", req, NoArg, "none", o)
       /\ UNCHANGED <<now, users, contacts, groups, settings, forceDebugMode, issued, call, ret>>

\* authUseCase.GetUserBySession called directly, as the middlewares and
\* handlers call it; the error comes back in body.error, the user in body.
CallGetUserBySession ==
  \E tok \in PresentTokens :
    LET g == GetUserBySession(redis, tok, now, FALSE, FALSE)
        o == [status |-> 0, setCookie |-> NoCookie,
              body |-> [Body EXCEPT !.error = g.err, !.id = g.user.ID,
                                    !.telegram_id = g.user.TelegramID,
                                    !.is_active = g.user.IsActive]]
    IN /\ redis' = g.redis
       /\ resp' = Served("authUseCase.GetUserBySession", NoReq, [NoArg EXCEPT !.name = tok],
                       "none", o)
       /\ UNCHANGED <<now, users, contacts, groups, settings, forceDebugMode, issued, call, ret>>

Next ==
  \/ Tick
  \/ RedisExpire
  \/ ReqAuthWithTelegram
  \/ ReqGetMe
  \/ ReqLogout
  \/ CallGetUserBySession

Spec == Init /\ [][Next]_vars

(***************************************************************************)
(* Group routes: registered in main.go with no middleware in front.        *)
(***************************************************************************)
\* What a route of the directory leaves behind.
Applied(o) ==
  /\ Len(o.groups) <= MaxGroups
  /\ Len(o.contacts) <= MaxContacts
  /\ redis' = o.redis
  /\ contacts' = o.contacts
  /\ groups' = o.groups
  /\ settings' = o.settings
  /\ UNCHANGED <<now, users, forceDebugMode, issued, call, ret>>

GroupIDStrs == {FormatNat(i) : i \in 1..MaxGroups} \cup {<<"x">>}

\* Bodies of group requests: unparsable, or a name.
GroupBodies ==
  {[parsed |-> FALSE, name |-> Empty]} \cup [parsed : {TRUE}, name : {NameAnn, NameBob, Blank}]

\* Requests to the group routes: no credential, or a Bearer token.
OpenReqs == {NoReq} \cup {[NoReq EXCEPT !.authorization = Bearer(tok)] : tok \in PresentTokens}

\* POST /api/v1/groups/
ReqCreateGroup ==
  \E req \in OpenReqs, b \in GroupBodies :
    \E o \in {CreateGroupHandler(b.parsed, b.name, redis)} :
       /\ Applied(o)
       /\ resp' = Served("POST /groups", req,
                          [NoArg EXCEPT !.name = b.name], "none", o)

\* PUT /api/v1/groups/:id
ReqUpdateGroup ==
  \E req \in OpenReqs, idStr \in GroupIDStrs, b \in GroupBodies :
    \E o \in {UpdateGroupHandler(idStr, b.parsed, b.name, redis)} :
       /\ Applied(o)
       /\ resp' = Served("PUT /groups/:id", req,
                          [NoArg EXCEPT !.id = ParseUint(idStr).n, !.name = b.name], "none", o)

\* DELETE /api/v1/groups/:id
ReqDeleteGroup ==
  \E req \in OpenReqs, idStr \in GroupIDStrs :
    \E o \in {DeleteGroupHandler(idStr, redis)} :
       /\ Applied(o)
       /\ resp' = Served("DELETE /groups/:id", req,
                          [NoArg EXCEPT !.id = ParseUint(idStr).n], "none", o)

NextGroups ==
  \/ ReqAuthWithTelegram
  \/ ReqCreateGroup
  \/ ReqUpdateGroup
  \/ ReqDeleteGroup

SpecGroups == Init /\ [][NextGroups]_vars

(***************************************************************************)
(* Contact, system and own-contact routes, behind their middleware chains. *)
(***************************************************************************)
\* Requests to the guarded routes: no credential, a cookie, a Bearer token,
\* or a Bearer token with the CSRF token issued for it.
GuardedReqs ==
  GetReqs \cup
  {[NoReq EXCEPT !.authorization = Bearer(tok),
                 !.csrf = generateCSRFToken(tok, h).token] :
     tok \in PresentTokens, h \in HexRandoms}

ContactIDStrs == {FormatNat(i) : i \in 1..MaxContacts}

NoData == [Name |-> None, Phone |-> None, Email |-> None, GroupIDs |-> None, TelegramID |-> None]

NewContacts ==
  {[Name |-> NameBob, Phone |-> PhoneB, Email |-> MailB, GroupIDs |-> {}],
   [Name |-> NameBob, Phone |-> PhoneA, Email |-> MailB, GroupIDs |-> {1}]}

ContactUpdates ==
  {[NoData EXCEPT !.Name = Some(NameBob)],
   [NoData EXCEPT !.Phone = Some(PhoneB)],
   [NoData EXCEPT !.GroupIDs = Some({})]}

\* POST /api/v1/contacts/
ReqCreateContact ==
  \E req \in GuardedReqs, parsed \in BOOLEAN, data \in NewContacts :
    \E gd \in {ContactGuards("POST", PathContacts, req, redis, now)} :
      \E o \in {IF gd.next THEN CreateContactHandler(parsed, data, gd.redis, gd.setCookie)
                ELSE Blocked(gd)} :
          /\ Applied(o)
          /\ resp' = Served("POST /contacts", req,
                             [NoArg EXCEPT !.name = data.Name], "none", o)

\* PUT /api/v1/contacts/:id
ReqUpdateContact ==
  \E req \in GuardedReqs, idStr \in ContactIDStrs, data \in ContactUpdates :
    \E gd \in {ContactGuards("PUT", PathContacts \o idStr, req, redis, now)} :
      \E o \in {IF gd.next THEN UpdateContactHandler(idStr, TRUE, data, gd.redis, gd.setCookie)
                ELSE Blocked(gd)} :
          /\ Applied(o)
          /\ resp' = Served("PUT /contacts/:id", req,
                             [NoArg EXCEPT !.id = ParseUint(idStr).n], "none", o)

\* DELETE /api/v1/contacts/:id
ReqDeleteContact ==
  \E req \in GuardedReqs, idStr \in ContactIDStrs :
    \E gd \in {ContactGuards("DELETE", PathContacts \o idStr, req, redis, now)} :
      \E o \in {IF gd.next THEN DeleteContactHandler(idStr, gd.redis, gd.setCookie)
                ELSE Blocked(gd)} :
          /\ Applied(o)
          /\ resp' = Served("DELETE /contacts/:id", req,
                             [NoArg EXCEPT !.id = ParseUint(idStr).n], "none", o)

\* POST /api/v1/contacts/:contact_id/groups/:group_id
ReqAddContactToGroup ==
  \E req \in GuardedReqs, c \in ContactIDStrs, g \in {FormatNat(1)} :
    \E gd \in {ContactGuards("POST", PathContacts \o c \o SegGroups \o g, req, redis, now)} :
      \E o \in {IF gd.next THEN AddContactToGroupHandler(c, g, gd.redis, gd.setCookie)
                ELSE Blocked(gd)} :
          /\ Applied(o)
          /\ resp' = Served("POST /contacts/:contact_id/groups/:group_id", req,
                             [NoArg EXCEPT !.id = ParseUint(c).n, !.other = ParseUint(g).n], "none", o)

\* DELETE /api/v1/contacts/:contact_id/groups/:group_id
ReqRemoveContactFromGroup ==
  \E req \in GuardedReqs, c \in ContactIDStrs, g \in {FormatNat(1)} :
    \E gd \in {ContactGuards("DELETE", PathContacts \o c \o SegGroups \o g, req, redis, now)} :
      \E o \in {IF gd.next THEN RemoveContactFromGroupHandler(c, g, gd.redis, gd.setCookie)
                ELSE Blocked(gd)} :
          /\ Applied(o)
          /\ resp' = Served("DELETE /contacts/:contact_id/groups/:group_id", req,
                             [NoArg EXCEPT !.id = ParseUint(c).n, !.other = ParseUint(g).n], "none", o)

\* PUT /api/v1/system/debug-mode
ReqSetDebugMode ==
  \E req \in GuardedReqs, parsed \in BOOLEAN, enabled \in BOOLEAN :
    \E gd \in {SystemGuards(req, redis, now)} :
      \E o \in {IF gd.next THEN SetDebugModeHandler(parsed, enabled, gd.redis, gd.setCookie)
                ELSE Blocked(gd)} :
          /\ Applied(o)
          /\ resp' = Served("PUT /system/debug-mode", req,
                             [NoArg EXCEPT !.flag = enabled], "none", o)

\* PUT /api/v1/auth/contact
ReqUpdateMyContact ==
  \E req \in GuardedReqs, parsed \in BOOLEAN,
     data \in {[NoData EXCEPT !.Name = Some(NameBob)], [NoData EXCEPT !.TelegramID = Some(43)]} :
    \E gd \in {AuthContactGuards(req, redis, now)} :
      \E o \in {IF gd.next THEN UpdateMyContact(req, parsed, data, gd.redis, now, gd.setCookie)
                ELSE Blocked(gd)} :
          /\ Applied(o)
          /\ resp' = Served("PUT /auth/contact", req,
                             NoArg, "none", o)

\* The process may have been started with DEBUG_MODE set (cfg.ForceDebugMode).
InitDirectory ==
  /\ forceDebugMode \in BOOLEAN
  /\ now = 0
  /\ redis = [k \in {} |-> 0]
  /\ users = << >>
  /\ contacts = <<[ID |-> 1, TelegramID |-> 42, Name |-> NameAnn, Phone |-> PhoneA,
                   Email |-> MailA, Groups |-> {1}, Deleted |-> FALSE]>>
  /\ groups = <<[ID |-> 1, Name |-> AdminGroupName, Deleted |-> FALSE]>>
  /\ settings = [k \in {} |-> ""]
  /\ issued = {}
  /\ resp = NoResp
  /\ call = NoCall
  /\ ret = NoCall

\* The same start over a settings table in which an earlier run of the process
\* may have left the debug setting switched on: the table outlives the process,
\* and initSystemSettings changes neither table (GetDebugMode reports no error
\* for a missing row, so the row is not created).
InitSystem ==
  /\ forceDebugMode \in BOOLEAN
  /\ now = 0
  /\ redis = [k \in {} |-> 0]
  /\ users = << >>
  /\ contacts = <<[ID |-> 1, TelegramID |-> 42, Name |-> NameAnn, Phone |-> PhoneA,
                   Email |-> MailA, Groups |-> {1}, Deleted |-> FALSE]>>
  /\ groups = <<[ID |-> 1, Name |-> AdminGroupName, Deleted |-> FALSE]>>
  /\ settings \in {[k \in {} |-> ""], [k \in {DebugModeKey} |-> "true"]}
  /\ issued = {}
  /\ resp = NoResp
  /\ call = NoCall
  /\ ret = NoCall

NextContacts ==
  \/ ReqAuthWithTelegram
  \/ ReqCreateContact
  \/ ReqUpdateContact

SpecContacts == InitDirectory /\ [][NextContacts]_vars

\* authUseCase.IsUserAdmin called directly, as GetMe and requireAdminOrDebug
\* call it, for the ID of a User row or of none; the answer comes back in
\* body.is_admin, the error in body.error.
CallIsUserAdmin ==
  \E uid \in 1..(Len(users) + 1) :
    \E a \in {IsUserAdmin(uid, FALSE)} :
       /\ resp' = Served("authUseCase.IsUserAdmin", NoReq, [NoArg EXCEPT !.id = uid], "none",
                         [status |-> 0, setCookie |-> NoCookie,
                          body |-> [Body EXCEPT !.error = a.err, !.is_admin = a.admin]])
       /\ UNCHANGED <<now, redis, users, contacts, groups, settings, forceDebugMode, issued,
                      call, ret>>

\* The membership routes, with the deletion of a Contact and the admin check.
NextMembership ==
  \/ ReqAuthWithTelegram
  \/ ReqDeleteContact
  \/ ReqAddContactToGroup
  \/ ReqRemoveContactFromGroup
  \/ CallIsUserAdmin

SpecMembership == InitDirectory /\ [][NextMembership]_vars

\* GET /api/v1/auth/csrf-token
ReqGetCSRFToken ==
  \E req \in GetReqs, h \in HexRandoms :
    \E o \in {GetCSRFToken(req, redis, h)} :
       /\ resp' = Served("GET /auth/csrf-token", req, NoArg, "none", o)
       /\ UNCHANGED <<now, redis, users, contacts, groups, settings, forceDebugMode, issued,
                      call, ret>>

NextSystem ==
  \/ ReqAuthWithTelegram
  \/ ReqSetDebugMode
  \/ ReqUpdateMyContact
  \/ ReqGetMe
  \/ ReqGetCSRFToken

SpecSystem == InitSystem /\ [][NextSystem]_vars

\* The two kinds of admin-gated route (a contact write behind the CSRF check,
\* the debug-mode write exempt from it) with logins.
NextGate ==
  \/ ReqAuthWithTelegram
  \/ ReqDeleteContact
  \/ ReqSetDebugMode

SpecGate == InitSystem /\ [][NextGate]_vars

(***************************************************************************)
(* Accounts: sessions whose user has been deactivated, and session         *)
(* resolution that meets a failing store or database.                      *)
(***************************************************************************)
\* An operator sets is_active = false on a row of users (the column of
\* models.go that GetUserBySession and GetUserByTelegramID read; no route of
\* the server writes it).
DeactivateUser ==
  \E i \in 1..Len(users) :
    /\ users[i].IsActive
    /\ users' = [users EXCEPT ![i].IsActive = FALSE]
    /\ resp' = Served("UPDATE users SET is_active = false", NoReq, [NoArg EXCEPT !.id = i],
                      "none", [status |-> 0, body |-> Body, setCookie |-> NoCookie])
    /\ UNCHANGED <<now, redis, contacts, groups, settings, forceDebugMode, issued, call, ret>>

\* GET /api/v1/auth/me while the store or the database may be failing
ReqGetMeFault ==
  \E req \in GetReqs, f \in Faults :
    \E o \in {GetMe(req, redis, now, f = "redis", f = "db")} :
       /\ redis' = o.redis
       /\ resp' = Served("GET /auth/me", req, NoArg, f, o)
       /\ UNCHANGED <<now, users, contacts, groups, settings, forceDebugMode, issued, call, ret>>

\* RequireAuthCookie as the guarded routes run it: status 0 stands for
\* c.Next(), body.id for the user left in c.Locals.
CallRequireAuthCookie ==
  \E req \in GetReqs, f \in Faults :
    \E m \in {RequireAuthCookie(req, redis, now, f = "redis", f = "db")} :
       /\ redis' = m.redis
       /\ resp' = Served("RequireAuthCookie", req, NoArg, f,
                         [status |-> m.status, setCookie |-> m.setCookie,
                          body |-> [m.body EXCEPT !.id = m.user.ID]])
       /\ UNCHANGED <<now, users, contacts, groups, settings, forceDebugMode, issued, call, ret>>

\* CookieAuthMiddleware, which always calls c.Next(): body.id is the user
\* left in c.Locals, 0 for an unauthenticated request.
CallCookieAuthMiddleware ==
  \E req \in GetReqs, f \in Faults :
    \E m \in {CookieAuthMiddleware(req, redis, now, f = "redis", f = "db")} :
       /\ redis' = m.redis
       /\ resp' = Served("CookieAuthMiddleware", req, NoArg, f,
                         [status |-> m.status, setCookie |-> m.setCookie,
                          body |-> [m.body EXCEPT !.id = m.user.ID]])
       /\ UNCHANGED <<now, users, contacts, groups, settings, forceDebugMode, issued, call, ret>>

NextAccounts ==
  \/ ReqAuthWithTelegram
  \/ DeactivateUser
  \/ CallGetUserBySession
  \/ ReqGetMeFault
  \/ CallRequireAuthCookie
  \/ CallCookieAuthMiddleware

SpecAccounts == Init /\ [][NextAccounts]_vars

\* authUseCase.AuthenticateWithTelegram called directly with a well signed,
\* fresh claim, as AuthWithTelegram calls it; the error comes back in
\* body.error, the session token in body.session_token.
CallAuthenticateWithTelegram ==
  \E id \in TelegramIDs, f \in Faults :
    \E o \in {AuthenticateWithTelegram(Claim(id, Empty, Empty, now, "good"), BotSecret,
                                       NextUUID, now, f = "redis", f = "db")} :
       /\ NextUUID = Empty => o.issued = issued
       /\ redis' = o.redis
       /\ users' = o.users
       /\ issued' = o.issued
       /\ resp' = Served("authUseCase.AuthenticateWithTelegram", NoReq,
                         [NoArg EXCEPT !.id = id], f,
                         [status |-> 0, setCookie |-> NoCookie,
                          body |-> [Body EXCEPT !.error = o.err,
                                                !.session_token = o.session.SessionToken]])
       /\ UNCHANGED <<now, contacts, groups, settings, forceDebugMode, call, ret>>

NextInactive ==
  \/ ReqAuthWithTelegram
  \/ DeactivateUser
  \/ CallAuthenticateWithTelegram
  \/ CallGetUserBySession

SpecInactive == Init /\ [][NextInactive]_vars

\* authRepository.DeleteAllUserSessions called directly for a stored user,
\* with the store working or failing; the error comes back in body.error.
CallDeleteAllUserSessions ==
  \E id \in 1..Len(users), f \in {"none", "redis"} :
    \E o \in {DeleteAllUserSessions(redis, id, f = "redis")} :
       /\ redis' = o.redis
       /\ resp' = Served("authRepository.DeleteAllUserSessions", NoReq,
                         [NoArg EXCEPT !.id = id], f,
                         [status |-> 0, setCookie |-> NoCookie,
                          body |-> [Body EXCEPT !.error = o.err]])
       /\ UNCHANGED <<now, users, contacts, groups, settings, forceDebugMode, issued,
                      call, ret>>

NextRevoke ==
  \/ Tick
  \/ RedisExpire
  \/ ReqAuthWithTelegram
  \/ CallDeleteAllUserSessions
  \/ CallGetUserBySession

SpecRevoke == Init /\ [][NextRevoke]_vars

(***************************************************************************)
(* Process start: main runs initSystemSettings over the settings table the *)
(* earlier runs left, then serves requests.                                *)
(***************************************************************************)
\* The debug_mode row found at start: none, one a SetDebugMode wrote, or one
\* edited by hand that ParseBool refuses.
StoredSettings ==
  {[k \in {} |-> ""]} \cup {[k \in {DebugModeKey} |-> v] : v \in {"true", "false", "yes"}}

Starting == [NoCall EXCEPT !.fn = "initSystemSettings"]

InitStartup ==
  /\ forceDebugMode \in BOOLEAN
  /\ now = 0
  /\ redis = [k \in {} |-> 0]
  /\ users = << >>
  /\ contacts = <<[ID |-> 1, TelegramID |-> 42, Name |-> NameAnn, Phone |-> PhoneA,
                   Email |-> MailA, Groups |-> {1}, Deleted |-> FALSE]>>
  /\ groups = <<[ID |-> 1, Name |-> AdminGroupName, Deleted |-> FALSE]>>
  /\ settings \in StoredSettings
  /\ issued = {}
  /\ resp = NoResp
  /\ call = Starting
  /\ ret = NoCall

\* main calls initSystemSettings once, before app.Listen; ret.ok records
\* that the database answered its statements.
RunInitSystemSettings ==
  /\ call = Starting
  /\ \E dbFault \in BOOLEAN :
       /\ settings' = initSystemSettings(dbFault)
       /\ resp' = Served("initSystemSettings", NoReq, NoArg,
                         IF dbFault THEN "db" ELSE "none",
                         [status |-> 0, body |-> Body, setCookie |-> NoCookie])
       /\ ret' = [Starting EXCEPT !.ok = ~dbFault]
  /\ call' = NoCall
  /\ UNCHANGED <<now, redis, users, contacts, groups, forceDebugMode, issued>>

StartedAuthWithTelegram ==
  /\ call = NoCall
  /\ ReqAuthWithTelegram

StartedSetDebugMode ==
  /\ call = NoCall
  /\ ReqSetDebugMode

NextStartup ==
  \/ RunInitSystemSettings
  \/ StartedAuthWithTelegram
  \/ StartedSetDebugMode

SpecStartup == InitStartup /\ [][NextStartup]_vars

\* The routes that write to the database, and GET /auth/me, in a process
\* that has run its startup.
StartedUpdateMyContact ==
  /\ call = NoCall
  /\ ReqUpdateMyContact

StartedGetMe ==
  /\ call = NoCall
  /\ ReqGetMe

NextSettings ==
  \/ RunInitSystemSettings
  \/ StartedAuthWithTelegram
  \/ StartedSetDebugMode
  \/ StartedUpdateMyContact
  \/ StartedGetMe

SpecSettings == InitStartup /\ [][NextSettings]_vars

(***************************************************************************)
(* Concurrent logins: fiber serves each request on its own goroutine, and  *)
(* AuthenticateWithTelegram is four statements against the database and    *)
(* the store with nothing held between them.  call[p] is the position of   *)
(* request p in it; the claims are well signed and fresh.                  *)
(***************************************************************************)
\* Number of login requests in flight at once.
MaxRequests == 2

Requests == 1..MaxRequests

Idle == [pc |-> "idle", id |-> 0, user |-> NoUser]

InitLogins ==
  /\ now = 0
  /\ redis = [k \in {} |-> 0]
  /\ users = << >>
  /\ contacts = <<[ID |-> 1, TelegramID |-> 42, Name |-> NameAnn, Phone |-> PhoneA,
                   Email |-> MailA, Groups |-> {1}, Deleted |-> FALSE]>>
  /\ groups = <<[ID |-> 1, Name |-> AdminGroupName, Deleted |-> FALSE]>>
  /\ settings = [k \in {} |-> ""]
  /\ forceDebugMode = FALSE
  /\ issued = {}
  /\ resp = NoResp
  /\ call = [p \in Requests |-> Idle]
  /\ ret = NoCall

\* What the handler answers when request p ends with error e ("" for none)
LoginAnswer(p, e, session) ==
  Served("POST /auth/telegram", NoReq, [NoArg EXCEPT !.id = call[p].id, !.other = p], "none",
         [status |-> IF e = "" THEN 200 ELSE 500, setCookie |-> NoCookie,
          body |-> IF e = "" THEN [Body EXCEPT !.session_token = session.SessionToken,
                                               !.expires_at = session.ExpiredAt]
                   ELSE ErrBody("Internal server error")])

\* uc.authRepo.GetUserByTelegramID
LoginFindUser(p) ==
  /\ call[p].pc = "idle"
  /\ \E id \in TelegramIDs :
       \E gu \in {GetUserByTelegramID(id, FALSE)} :
         call' = [call EXCEPT ![p] = [pc |-> IF gu.err = "" THEN "session" ELSE "contact",
                                     id |-> id, user |-> gu.user]]
  /\ resp' = NoResp
  /\ UNCHANGED <<now, redis, users, contacts, groups, settings, forceDebugMode, issued, ret>>

\* uc.contactRepo.GetByTelegramID, and the row to insert
LoginFindContact(p) ==
  /\ call[p].pc = "contact"
  /\ \E gc \in {GetByTelegramID(call[p].id, FALSE)} :
       call' = [call EXCEPT ![p].pc = "create",
                            ![p].user = [ID |-> 0, TelegramID |-> call[p].id,
                                         ContactID |-> IF gc.err = "" THEN gc.contact.ID ELSE 0,
                                         IsActive |-> TRUE]]
  /\ resp' = NoResp
  /\ UNCHANGED <<now, redis, users, contacts, groups, settings, forceDebugMode, issued, ret>>

\* uc.authRepo.CreateUser
LoginCreateUser(p) ==
  /\ call[p].pc = "create"
  /\ \E cu \in {CreateUser(call[p].user, FALSE)} :
       /\ users' = cu.users
       /\ IF cu.err # ""
            THEN call' = [call EXCEPT ![p] = Idle] /\ resp' = LoginAnswer(p, cu.err, NoSession)
            ELSE call' = [call EXCEPT ![p].pc = "session", ![p].user = cu.user]
                 /\ resp' = NoResp
  /\ UNCHANGED <<now, redis, contacts, groups, settings, forceDebugMode, issued, ret>>

\* the IsActive test, uuid.New() and uc.authRepo.CreateSession
LoginCreateSession(p) ==
  /\ call[p].pc = "session"
  /\ NextUUID # Empty
  /\ \E o \in {IF ~call[p].user.IsActive
                  THEN AuthFail("ErrUserNotFound", users, redis, issued)
                  ELSE IssueSession(redis, call[p].user, users, NextUUID, now, FALSE)} :
       /\ redis' = o.redis
       /\ issued' = o.issued
       /\ resp' = LoginAnswer(p, o.err, o.session)
  /\ call' = [call EXCEPT ![p] = Idle]
  /\ UNCHANGED <<now, users, contacts, groups, settings, forceDebugMode, ret>>

\* An operator's UPDATE between the statements of the requests
LoginsDeactivateUser ==
  /\ \E i \in 1..Len(users) :
       /\ users[i].IsActive
       /\ users' = [users EXCEPT ![i].IsActive = FALSE]
  /\ resp' = NoResp
  /\ UNCHANGED <<now, redis, contacts, groups, settings, forceDebugMode, issued, call, ret>>

NextLogins ==
  \/ \E p \in Requests : LoginFindUser(p)
  \/ \E p \in Requests : LoginFindContact(p)
  \/ \E p \in Requests : LoginCreateUser(p)
  \/ \E p \in Requests : LoginCreateSession(p)
  \/ LoginsDeactivateUser

SpecLogins == InitLogins /\ [][NextLogins]_vars

(***************************************************************************)
(* The Signature Verifier on its own: Init draws a claim and a clock, the  *)
(* one action applies verifyTelegramAuth to it.                            *)
(***************************************************************************)
VerifyTimes == {0, 100}

VerifyAges == {0 - 1, 0, AuthMaxAge - 1, AuthMaxAge, AuthMaxAge + 1, 2 * AuthMaxAge}

InitVerify ==
  /\ now \in VerifyTimes
  /\ \E id \in TelegramIDs, first \in {Empty, NameAnn}, user \in {Empty, NameBob},
        age \in VerifyAges, kind \in HashKinds :
       call = [fn |-> "verifyTelegramAuth",
               authData |-> Claim(id, first, user, now - age, kind), ok |-> FALSE]
  /\ ret = NoCall
  /\ redis = [k \in {} |-> 0]
  /\ users = << >>
  /\ contacts = << >>
  /\ groups = << >>
  /\ settings = [k \in {} |-> ""]
  /\ forceDebugMode = FALSE
  /\ issued = {}
  /\ resp = NoResp

VerifyCall ==
  /\ ret = NoCall
  /\ ret' = [call EXCEPT !.ok = verifyTelegramAuth(call.authData, BotSecret, now)]
  /\ UNCHANGED <<now, redis, users, contacts, groups, settings, forceDebugMode, issued,
                 resp, call>>

NextVerify == VerifyCall

SpecVerify == InitVerify /\ [][NextVerify]_vars

(***************************************************************************)
(* The CSRF Guard on its own: Init draws the session token a CSRF token is *)
(* generated for and the random bytes; one action generates the token, the *)
(* other validates it against a session token of the same pool.            *)
(***************************************************************************)
\* Number of session tokens (uuid.New().String() values) drawn.
MaxCSRFSessions == 5

CSRFSessions == {UUID(i) : i \in 1..MaxCSRFSessions}

\* hex.EncodeToString of the 16 random bytes
CSRFRandoms == {Rep(c, CSRFHexLen) : c \in {"0", "7", "c", "f"}}

InitCSRF ==
  /\ now = 0
  /\ \E s \in CSRFSessions, h \in CSRFRandoms :
       call = [fn |-> "generateCSRFToken", session |-> s, hex |-> h]
  /\ ret = NoCall
  /\ redis = [k \in {} |-> 0]
  /\ users = << >>
  /\ contacts = << >>
  /\ groups = << >>
  /\ settings = [k \in {} |-> ""]
  /\ forceDebugMode = FALSE
  /\ issued = {}
  /\ resp = NoResp

CallGenerateCSRFToken ==
  /\ call.fn = "generateCSRFToken"
  /\ \E g \in {generateCSRFToken(call.session, call.hex)} :
       ret' = [fn |-> "generateCSRFToken", session |-> call.session,
               issuedFor |-> call.session, token |-> g.token, panic |-> g.panic,
               ok |-> FALSE]
  /\ call' = [call EXCEPT !.fn = "validateCSRFToken"]
  /\ UNCHANGED <<now, redis, users, contacts, groups, settings, forceDebugMode, issued, resp>>

CallValidateCSRFToken ==
  /\ call.fn = "validateCSRFToken"
  /\ ~ret.panic
  /\ \E s \in CSRFSessions :
       \E v \in {validateCSRFToken(s, ret.token)} :
         ret' = [fn |-> "validateCSRFToken", session |-> s, issuedFor |-> call.session,
                 token |-> ret.token, panic |-> v.panic, ok |-> v.ok]
  /\ UNCHANGED <<now, redis, users, contacts, groups, settings, forceDebugMode, issued,
                 resp, call>>

NextCSRF ==
  \/ CallGenerateCSRFToken
  \/ CallValidateCSRFToken

SpecCSRF == InitCSRF /\ [][NextCSRF]_vars

(***************************************************************************)
(* The data-check string on its own: Init draws the claim fields, the one  *)
(* action applies createDataCheckString to them.                           *)
(***************************************************************************)
FirstNames == {Empty, NameAnn, <<"A", " ", "B">>}

LastNames == {Empty, <<"U+0416">>}

PhotoURLs == {Empty, <<"h", ":", "/", "/", "x", "?", "a", "=", "1", "&", "b">>}

DataCheckClaims ==
  [ID : TelegramIDs, FirstName : FirstNames, LastName : LastNames,
   Username : {Empty, NameBob}, PhotoURL : PhotoURLs, AuthDate : {0, 100},
   Hash : {HexEncodeToString(SHA256(Empty))}]

InitDataCheck ==
  /\ now = 100
  /\ \E a \in DataCheckClaims :
       call = [fn |-> "createDataCheckString", authData |-> a, ok |-> FALSE]
  /\ ret = NoCall
  /\ redis = [k \in {} |-> 0]
  /\ users = << >>
  /\ contacts = << >>
  /\ groups = << >>
  /\ settings = [k \in {} |-> ""]
  /\ forceDebugMode = FALSE
  /\ issued = {}
  /\ resp = NoResp

CallCreateDataCheckString ==
  /\ ret = NoCall
  /\ ret' = [fn |-> "createDataCheckString", authData |-> call.authData, ok |-> TRUE,
             out |-> createDataCheckString(call.authData)]
  /\ UNCHANGED <<now, redis, users, contacts, groups, settings, forceDebugMode, issued,
                 resp, call>>

NextDataCheck == CallCreateDataCheckString

SpecDataCheck == InitDataCheck /\ [][NextDataCheck]_vars

(***************************************************************************)
(* The CSRF Guard on what a client can present: session tokens of any      *)
(* length in the Authorization header, X-CSRF-Token values of any length.  *)
(* The two functions are called directly and through the endpoint and the  *)
(* middleware (in front of POST /auth/logout).                             *)
(***************************************************************************)
GuardSessions ==
  {<<"x">>, Rep("a", CSRFSessionPart - 1), Rep("a", CSRFSessionPart), UUID(1), UUID(2)}

GuardTokens ==
  {Empty,
   Rep("0", CSRFMinLen - 1),
   Rep("0", CSRFHexLen) \o Rep("a", CSRFSessionPart),
   Rep("f", CSRFHexLen) \o Rep("a", CSRFSessionPart),
   Rep("0", CSRFHexLen) \o Rep("b", CSRFSessionPart),
   Rep("0", CSRFHexLen + 1) \o Rep("a", CSRFSessionPart),
   Rep("0", CSRFHexLen + 1) \o Rep("b", CSRFSessionPart),
   Rep("0", CSRFHexLen) \o Rep("a", CSRFSessionPart + 1)}

InitGuard ==
  /\ now = 0
  /\ call = NoCall
  /\ ret = NoCall
  /\ redis = [k \in {} |-> 0]
  /\ users = << >>
  /\ contacts = << >>
  /\ groups = << >>
  /\ settings = [k \in {} |-> ""]
  /\ forceDebugMode = FALSE
  /\ issued = {}
  /\ resp = NoResp

GuardGenerateCSRFToken ==
  /\ \E s \in GuardSessions, h \in CSRFRandoms :
       \E g \in {generateCSRFToken(s, h)} :
         ret' = [fn |-> "generateCSRFToken", session |-> s, issuedFor |-> s,
                 token |-> g.token, panic |-> g.panic, ok |-> FALSE]
  /\ UNCHANGED <<now, redis, users, contacts, groups, settings, forceDebugMode, issued,
                 resp, call>>

GuardValidateCSRFToken ==
  /\ \E s \in GuardSessions, t \in GuardTokens :
       \E v \in {validateCSRFToken(s, t)} :
         ret' = [fn |-> "validateCSRFToken", session |-> s, issuedFor |-> Empty,
                 token |-> t, panic |-> v.panic, ok |-> v.ok]
  /\ UNCHANGED <<now, redis, users, contacts, groups, settings, forceDebugMode, issued,
                 resp, call>>

\* GET /api/v1/auth/csrf-token
GuardGetCSRFToken ==
  \E s \in GuardSessions, h \in HexRandoms :
    \E req \in {[NoReq EXCEPT !.authorization = Bearer(s)]} :
      \E o \in {GetCSRFToken(req, redis, h)} :
         /\ resp' = Served("GET /auth/csrf-token", req, NoArg, "none", o)
         /\ UNCHANGED <<now, redis, users, contacts, groups, settings, forceDebugMode,
                        issued, call, ret>>

\* POST /api/v1/auth/logout, behind CSRFMiddleware
GuardLogout ==
  \E s \in GuardSessions, t \in GuardTokens :
    \E req \in {[NoReq EXCEPT !.authorization = Bearer(s), !.csrf = t]} :
      \E o \in {LogoutRoute(req, redis, now, FALSE)} :
         /\ redis' = o.redis
         /\ resp' = Served("POST /auth/logout", req, NoArg, "none", o)
         /\ UNCHANGED <<now, users, contacts, groups, settings, forceDebugMode, issued,
                        call, ret>>

NextGuard ==
  \/ GuardGenerateCSRFToken
  \/ GuardValidateCSRFToken
  \/ GuardGetCSRFToken
  \/ GuardLogout

SpecGuard == InitGuard /\ [][NextGuard]_vars

(***************************************************************************)
(* Concurrent session resolution: each request runs GetUserBySession as    *)
(* its separate commands (GET, DEL, SELECT), interleaved with the other    *)
(* request, the clock and the removal of keys by TTL.  The store holds two *)
(* sessions of one user, written at hours 0 and 1.                         *)
(***************************************************************************)
SeededUser == [ID |-> 1, TelegramID |-> 42, ContactID |-> 1, IsActive |-> TRUE]

SeededSession(i) == NewSessionFor(SeededUser, UUID(i), i - 1)

SeededTokens == {UUID(1), UUID(2)}

\* ExpiredAt of the session written for a seeded token
SeededExpiry(tok) == IF tok = UUID(1) THEN SeededSession(1).ExpiredAt ELSE SeededSession(2).ExpiredAt

NotResolving == [pc |-> "idle", tok |-> Empty, at |-> 0, user |-> NoUser, err |-> ""]

InitResolve ==
  /\ now = SessionLifetime
  /\ redis = CreateSession(CreateSession([k \in {} |-> 0], SeededSession(1), 0, FALSE).redis,
                           SeededSession(2), 1, FALSE).redis
  /\ users = <<SeededUser>>
  /\ contacts = <<[ID |-> 1, TelegramID |-> 42, Name |-> NameAnn, Phone |-> PhoneA,
                   Email |-> MailA, Groups |-> {1}, Deleted |-> FALSE]>>
  /\ groups = <<[ID |-> 1, Name |-> AdminGroupName, Deleted |-> FALSE]>>
  /\ settings = [k \in {} |-> ""]
  /\ forceDebugMode = FALSE
  /\ issued = SeededTokens
  /\ resp = NoResp
  /\ call = [p \in Requests |-> NotResolving]
  /\ ret = NoCall

\* GetSession up to the expiry test: redis GET, json.Unmarshal, time.Now()
ResolveGet(p) ==
  /\ call[p].pc = "idle"
  /\ \E tok \in SeededTokens :
       call' = [call EXCEPT ![p] =
                  IF getSessionKey(tok) \notin DOMAIN redis
                    THEN [pc |-> "done", tok |-> tok, at |-> now, user |-> NoUser,
                          err |-> "ErrSessionNotFound"]
                  ELSE IF now > UnmarshalSession(redis[getSessionKey(tok)].value).ExpiredAt
                    THEN [pc |-> "delete", tok |-> tok, at |-> now, user |-> NoUser,
                          err |-> ""]
                  ELSE [pc |-> "user", tok |-> tok, at |-> now,
                        user |-> [NoUser EXCEPT !.ID =
                                    UnmarshalSession(redis[getSessionKey(tok)].value).UserID],
                        err |-> ""]]
  /\ UNCHANGED <<now, redis, users, contacts, groups, settings, forceDebugMode, issued,
                 resp, ret>>

\* GetSession on an expired record: DeleteSession, then "session expired",
\* which GetUserBySession turns into ErrSessionExpired
ResolveDelete(p) ==
  /\ call[p].pc = "delete"
  /\ redis' = DeleteSession(redis, call[p].tok, FALSE).redis
  /\ call' = [call EXCEPT ![p].pc = "done", ![p].err = "ErrSessionExpired"]
  /\ UNCHANGED <<now, users, contacts, groups, settings, forceDebugMode, issued, resp, ret>>

\* GetUserBySession after a valid session: GetUserByID and the IsActive test
ResolveGetUser(p) ==
  /\ call[p].pc = "user"
  /\ \E gu \in {GetUserByID(call[p].user.ID, FALSE)} :
       call' = [call EXCEPT ![p].pc = "done",
                            ![p].user = IF gu.err = "" /\ gu.user.IsActive THEN gu.user
                                        ELSE NoUser,
                            ![p].err = IF gu.err = "record not found" THEN "ErrUserNotFound"
                                       ELSE IF gu.err # "" THEN gu.err
                                       ELSE IF ~gu.user.IsActive THEN "ErrUserNotFound"
                                       ELSE ""]
  /\ UNCHANGED <<now, redis, users, contacts, groups, settings, forceDebugMode, issued,
                 resp, ret>>

NextResolve ==
  \/ \E p \in Requests : ResolveGet(p)
  \/ \E p \in Requests : ResolveDelete(p)
  \/ \E p \in Requests : ResolveGetUser(p)
  \/ Tick
  \/ RedisExpire

SpecResolve == InitResolve /\ [][NextResolve]_vars

(***************************************************************************)
(* The two privilege decisions while single statements fail: the read of   *)
(* the debug setting, the lookups of IsUserAdmin, or both.                 *)
(***************************************************************************)
LookupFault(debugFault, adminFault) ==
  IF debugFault /\ adminFault THEN "debug+admin"
  ELSE IF debugFault THEN "debug"
  ELSE IF adminFault THEN "admin"
  ELSE "none"

\* GET /api/v1/auth/me
ReqGetMeLookups ==
  \E req \in GetReqs, debugFault \in BOOLEAN, adminFault \in BOOLEAN :
    \E o \in {GetMeOn(req, redis, now, FALSE, FALSE, debugFault, adminFault)} :
       /\ redis' = o.redis
       /\ resp' = Served("GET /auth/me", req, NoArg, LookupFault(debugFault, adminFault), o)
       /\ UNCHANGED <<now, users, contacts, groups, settings, forceDebugMode, issued, call, ret>>

\* PUT /api/v1/system/debug-mode
ReqSetDebugModeLookups ==
  \E req \in GuardedReqs, parsed \in BOOLEAN, enabled \in BOOLEAN,
     debugFault \in BOOLEAN, adminFault \in BOOLEAN :
    \E gd \in {SystemGuardsOn(req, redis, now, debugFault, adminFault)} :
      \E o \in {IF gd.next THEN SetDebugModeHandler(parsed, enabled, gd.redis, gd.setCookie)
                ELSE Blocked(gd)} :
          /\ Applied(o)
          /\ resp' = Served("PUT /system/debug-mode", req, [NoArg EXCEPT !.flag = enabled],
                            LookupFault(debugFault, adminFault), o)

NextLookups ==
  \/ ReqAuthWithTelegram
  \/ ReqGetMeLookups
  \/ ReqSetDebugModeLookups

SpecLookups == InitSystem /\ [][NextLookups]_vars

(***************************************************************************)
(* The session-gated auth routes while sessions lapse: logins, the clock,  *)
(* the removal of keys by TTL, and GET /auth/me, GET /auth/csrf-token and  *)
(* PUT /auth/contact.                                                      *)
(***************************************************************************)
NextLapse ==
  \/ Tick
  \/ RedisExpire
  \/ ReqAuthWithTelegram
  \/ ReqGetMe
  \/ ReqGetCSRFToken
  \/ ReqUpdateMyContact

SpecLapse == Init /\ [][NextLapse]_vars

(***************************************************************************)
(* PUT /auth/contact from a client that sends both a session_token cookie  *)
(* and an Authorization header.                                            *)
(***************************************************************************)
\* Requests carrying a cookie, a Bearer token and possibly an X-CSRF-Token.
MixedReqs ==
  {[cookie |-> c, authorization |-> Bearer(b), csrf |-> x] :
     c \in PresentTokens, b \in PresentTokens, x \in CSRFHeaders}

\* PUT /api/v1/auth/contact
ReqUpdateMyContactMixed ==
  \E req \in MixedReqs, parsed \in BOOLEAN,
     data \in {[NoData EXCEPT !.Name = Some(NameBob)], [NoData EXCEPT !.Name = Some(NameAnn)]} :
    \E gd \in {AuthContactGuards(req, redis, now)} :
      \E o \in {IF gd.next THEN UpdateMyContact(req, parsed, data, gd.redis, now, gd.setCookie)
                ELSE Blocked(gd)} :
          /\ Applied(o)
          /\ resp' = Served("PUT /auth/contact", req, NoArg, "none", o)

NextMixed ==
  \/ ReqAuthWithTelegram
  \/ ReqUpdateMyContact
  \/ ReqUpdateMyContactMixed

SpecMixed == Init /\ [][NextMixed]_vars

(***************************************************************************)
(* Properties of the Signature Verifier.                                   *)
(***************************************************************************)
\* The hash Telegram would have produced for the claim fields of a.
CorrectHash(a) == SignedHash(a, BotSecret)

\* Age of the claim at the moment of the call, in hours.
ClaimAge == now - ret.authData.AuthDate

\* C1: verifyTelegramAuth answers true for a claim whose hash is the hex
\* HMAC-SHA256 of its data-check string under SHA-256(bot secret) and whose
\* auth_date lies within the last 24 hours, and false for every claim
\* whose hash differs from that value.
C1_CorrectHashAccepted ==
  ret.fn = "verifyTelegramAuth" =>
    /\ (ret.authData.Hash = CorrectHash(ret.authData) /\ ClaimAge >= 0 /\ ClaimAge <= AuthMaxAge)
         => ret.ok
    /\ ret.authData.Hash # CorrectHash(ret.authData) => ~ret.ok

C1_Witness ==
  /\ ret.fn = "verifyTelegramAuth"
  /\ ret.authData.Hash = CorrectHash(ret.authData)
  /\ ClaimAge = AuthMaxAge
  /\ ret.authData.Username # Empty
  /\ ret.ok

\* C2: a claim whose auth_date is more than 24 hours before the call is
\* rejected, even when its hash is correct.
C2_StaleRejected ==
  (ret.fn = "verifyTelegramAuth" /\ ClaimAge > AuthMaxAge) => ~ret.ok

C2_Witness ==
  /\ ret.fn = "verifyTelegramAuth"
  /\ ret.authData.Hash = CorrectHash(ret.authData)
  /\ ClaimAge = AuthMaxAge + 1
  /\ ~ret.ok

(***************************************************************************)
(* Properties of login and of the session life cycle.                      *)
(***************************************************************************)
\* A token no login of this run has been given.
ForgedToken == UUID(MaxSessions + 1)

AnyTokens == UUIDPool \cup {ForgedToken}

\* Resolution of a token by a request that meets no fault.
Resolve(tok) == GetUserBySession(redis, tok, now, FALSE, FALSE)

HasEntry(tok) == getSessionKey(tok) \in DOMAIN redis

StoredSession(tok) == UnmarshalSession(redis[getSessionKey(tok)].value)

LoginOK == resp.route = "POST /auth/telegram" /\ resp.status = 200

\* Claims a client may send: either Telegram ID, fresh or stale, any hash.
AllClaims ==
  {Claim(id, Empty, Empty, now - age, kind) :
     id \in TelegramIDs, age \in {0, AuthMaxAge + 1}, kind \in HashKinds}

\* C3: when verification of the claim fails, the login answers
\* ErrInvalidTelegramAuth / HTTP 401 and leaves the users table and the
\* session store as they were, whatever else the request meets.
C3_FailedVerificationChangesNothing ==
  \A a \in AllClaims, f \in Faults :
    ~verifyTelegramAuth(a, BotSecret, now) =>
      LET u == AuthenticateWithTelegram(a, BotSecret, NextUUID, now, f = "redis", f = "db")
          h == AuthWithTelegram(TRUE, a, NextUUID, now, f = "redis", f = "db")
      IN /\ u.err = "ErrInvalidTelegramAuth"
         /\ u.users = users /\ u.redis = redis
         /\ h.status = 401
         /\ h.users = users /\ h.redis = redis

\* A rejected login has been served while users and sessions exist.
C3_Witness ==
  /\ resp.route = "POST /auth/telegram"
  /\ resp.status = 401
  /\ Len(users) > 0
  /\ DOMAIN redis # {}

\* C4: right after a login has written the session (u, t), resolving t
\* yields u; resolving a token no login created yields ErrSessionNotFound.
C4_LoginThenResolve ==
  /\ LoginOK =>
       /\ Resolve(resp.body.session_token).err = ""
       /\ Resolve(resp.body.session_token).user.TelegramID = resp.arg.id
       /\ \E i \in 1..Len(users) : users[i] = Resolve(resp.body.session_token).user
  /\ \A tok \in AnyTokens \ issued : Resolve(tok).err = "ErrSessionNotFound"

\* The second user has logged in.
C4_Witness ==
  /\ LoginOK
  /\ Len(users) = 2
  /\ Resolve(resp.body.session_token).user = users[2]

LogoutOK == resp.route = "POST /auth/logout" /\ resp.status = 200

\* C5: after Logout(t), resolving t yields ErrSessionNotFound and GET
\* /auth/me with t answers 401; Logout of a token that has no session (a
\* second Logout, a token never created) returns no error.
C5_LogoutRevokes ==
  /\ LogoutOK =>
       LET t == extractSessionToken(resp.req)
       IN /\ Resolve(t).err = "ErrSessionNotFound"
          /\ GetMe([NoReq EXCEPT !.authorization = Bearer(t)], redis, now, FALSE, FALSE).status
               = 401
  /\ \A tok \in AnyTokens :
       ~HasEntry(tok) =>
         /\ Logout(redis, tok, FALSE).err = ""
         /\ LogoutHandler([NoReq EXCEPT !.authorization = Bearer(tok)], redis, now, FALSE).status
              = 200

\* A session that had been created has been logged out while another lives.
C5_Witness ==
  /\ LogoutOK
  /\ extractSessionToken(resp.req) \in issued
  /\ \E tok \in issued : HasEntry(tok)

\* C6: resolving a token whose stored expiry lies in the past yields
\* ErrSessionExpired, and afterwards the store holds no entry under
\* session:<token>.
C6_ExpiredIsDeleted ==
  /\ \A tok \in AnyTokens :
       (HasEntry(tok) /\ now > StoredSession(tok).ExpiredAt) =>
         /\ Resolve(tok).err = "ErrSessionExpired"
         /\ getSessionKey(tok) \notin DOMAIN Resolve(tok).redis
  /\ (resp.route = "authUseCase.GetUserBySession" /\ resp.body.error = "ErrSessionExpired")
       => ~HasEntry(resp.arg.name)

C6_Witness ==
  /\ resp.route = "authUseCase.GetUserBySession"
  /\ resp.body.error = "ErrSessionExpired"
  /\ ~HasEntry(resp.arg.name)

\* The entries of the store other than those of the tokens in T are the same
\* before and after the step.
OthersKept(T) ==
  \A tok \in AnyTokens \ T :
    /\ HasEntry(tok) <=> HasEntry(tok)'
    /\ HasEntry(tok) => StoredSession(tok)' = StoredSession(tok)
    /\ Resolve(tok).err = "" =>
         (Resolve(tok).err)' = "" /\ (Resolve(tok).user)' = Resolve(tok).user

\* C7: every successful login stores its session under a token no earlier
\* login was given and neither deletes nor alters any other session, so all
\* tokens of n logins resolve; revoking one of them leaves the others.
C7_SessionsIndependent ==
  [][/\ LoginOK' /\ resp'.fault = "none" =>
          /\ resp'.body.session_token \notin issued
          /\ ~HasEntry(resp'.body.session_token)
          /\ OthersKept({resp'.body.session_token})
     /\ LogoutOK' => OthersKept({extractSessionToken(resp'.req)})]_vars

\* Two logins of one user: both tokens resolve to that user.
C7_Witness ==
  /\ LoginOK
  /\ Len(users) = 1
  /\ \A tok \in UUIDPool : Resolve(tok).err = "" /\ Resolve(tok).user = users[1]

\* No user comes out of resolving tok.
Dead(tok) == Resolve(tok).err \in {"ErrSessionNotFound", "ErrSessionExpired"}

\* C8: a session goes NoSession -> Active -> Expired or Revoked and stays
\* there: a token that was given out and then revoked, or resolved as
\* expired, never again resolves to a user.
C8_TerminalStates ==
  [][\A tok \in issued : Dead(tok) => Dead(tok)']_vars

\* A login succeeds after an earlier token was revoked.
C8_Witness ==
  /\ LoginOK
  /\ \E tok \in issued : tok # resp.body.session_token /\ ~HasEntry(tok)

(***************************************************************************)
(* Properties of the routes.                                               *)
(***************************************************************************)
\* The token of a request as the claimed contract reads it: the cookie, or
\* else the Bearer token.
CookieOrBearer(req) == IF req.cookie # Empty THEN req.cookie ELSE extractSessionToken(req)

\* C9: no route other than the login changes a Contact, a Group, a
\* membership or the debug setting for a request that carries no resolvable
\* session: every step that changes the tables was asked for with a token
\* (cookie or Bearer) that resolves to a user when the request arrives.
C9_WritesNeedSession ==
  [][(contacts' # contacts \/ groups' # groups \/ settings' # settings) =>
       Resolve(CookieOrBearer(resp'.req)).err = ""]_vars

\* A request without any credential has created a Group.
C9_Counterexample ==
  /\ resp.route = "POST /groups"
  /\ resp.req = NoReq
  /\ resp.status = 201
  /\ Len(groups) = 2
  /\ groups[2].Name = resp.arg.name

\* C10: the endpoints that need a session take the token from the
\* session_token cookie or from Authorization: Bearer; GET /auth/me with
\* only a valid session cookie answers 200 with the user of that session.
C10_CookieAccepted ==
  (/\ resp.route = "GET /auth/me"
   /\ resp.fault = "none"
   /\ resp.req.authorization = Empty
   /\ resp.req.cookie # Empty
   /\ Resolve(resp.req.cookie).err = "")
    => /\ resp.status = 200
       /\ resp.body.id = Resolve(resp.req.cookie).user.ID

\* GET /auth/me with only a valid session cookie has been answered 401.
C10_Counterexample ==
  /\ resp.route = "GET /auth/me"
  /\ resp.req.authorization = Empty
  /\ resp.req.cookie \in issued
  /\ Resolve(resp.req.cookie).err = ""
  /\ resp.status = 401
  /\ resp.body.error = "Authorization header required"

(***************************************************************************)
(* Properties of the Authorization Gate.                                   *)
(***************************************************************************)
\* The Directory Entry with this Telegram ID is a member of a group named
\* exactly AdminGroupName.
AdminMember(telegramID) ==
  \E i \in Live(contacts) :
    /\ contacts[i].TelegramID = telegramID
    /\ \E g \in contacts[i].Groups \cap Live(groups) : groups[g].Name = AdminGroupName

AdminCallOK == resp.route = "authUseCase.IsUserAdmin" /\ resp.body.error = ""

\* C11: IsUserAdmin(u) answers true if and only if the Directory Entry whose
\* TelegramID is u's Telegram ID is a member of a group named exactly
\* AdminGroupName.
C11_AdminIffMember ==
  AdminCallOK => (resp.body.is_admin <=> AdminMember(users[resp.arg.id].TelegramID))

\* IsUserAdmin has answered false for a user whose Directory Entry is a
\* member of the administrators group.
C11_MemberRefused ==
  /\ AdminCallOK
  /\ AdminMember(users[resp.arg.id].TelegramID)
  /\ ~resp.body.is_admin

\* C12: IsUserAdmin reads the tables at every call: once a step has made the
\* user's Directory Entry a member of the administrators group the next call
\* answers true, and once a step has ended that membership (removal, rename
\* of the group) the next call answers false.
C12_AdminReadsLiveData ==
  [][\A i \in 1..Len(users), tg \in TelegramIDs :
       users[i].TelegramID = tg =>
         /\ (~AdminMember(tg) /\ AdminMember(tg)') => IsUserAdmin(i, FALSE)'.admin
         /\ (AdminMember(tg) /\ ~AdminMember(tg)') => ~IsUserAdmin(i, FALSE)'.admin]_vars

\* The add-membership route has answered 204 for the Directory Entry of a
\* user, the entry is a member of the administrators group, and the next
\* IsUserAdmin call for that user answers false.
C12_AddedButRefused ==
  /\ resp.route = "POST /contacts/:contact_id/groups/:group_id"
  /\ resp.status = 204
  /\ \E i \in 1..Len(users) :
       /\ users[i].TelegramID = contacts[resp.arg.id].TelegramID
       /\ AdminMember(users[i].TelegramID)
       /\ ~IsUserAdmin(i, FALSE).admin

\* The user the Bearer token of a request resolves to (GetMe reads only the
\* Authorization header), and the user its cookie-or-Bearer token resolves to
\* (RequireAuthCookie), both in the state the request arrives in.
BearerUser(req) == Resolve(extractSessionToken(req))

GateUser(req) == Resolve(CookieOrBearer(req))

\* PUT /system/debug-mode got past its guards: the handler answered.
Admitted(r) ==
  \/ r.status = 200
  \/ r.status = 400 /\ r.body.error = "Invalid request body"

\* C13: in a process started with the force-debug flag, every request of an
\* authenticated user who is not a member of the administrators group gets
\* is_admin true from GET /auth/me and is admitted to PUT /system/debug-mode,
\* whatever the persisted debug setting is at that moment.
C13_ForceDebugAdmits ==
  [][forceDebugMode =>
       /\ (/\ resp'.route = "GET /auth/me"
           /\ BearerUser(resp'.req).err = ""
           /\ ~AdminMember(BearerUser(resp'.req).user.TelegramID))
          => (resp'.status = 200 /\ resp'.body.is_admin)
       /\ (/\ resp'.route = "PUT /system/debug-mode"
           /\ GateUser(resp'.req).err = ""
           /\ ~AdminMember(GateUser(resp'.req).user.TelegramID))
          => Admitted(resp')]_vars

\* With the flag set and the persisted setting switched off during the
\* process lifetime, a user outside the administrators group has been told
\* is_admin true, and has been admitted to the debug-mode write.
C13_Witness ==
  /\ forceDebugMode
  /\ DebugModeKey \in DOMAIN settings
  /\ settings[DebugModeKey] = "false"
  /\ \/ /\ resp.route = "GET /auth/me"
        /\ resp.status = 200
        /\ resp.body.telegram_id = 43
        /\ resp.body.is_admin
     \/ /\ resp.route = "PUT /system/debug-mode"
        /\ resp.status = 200
        /\ GateUser(resp.req).err = ""
        /\ GateUser(resp.req).user.TelegramID = 43

\* The privilege decision as the claim states it, read in the state a request
\* arrives in.
Privileged(user) ==
  \/ forceDebugMode
  \/ GetDebugMode(FALSE).enabled
  \/ IsUserAdmin(user.ID, FALSE).admin

\* C14: for an authenticated user GET /auth/me reports is_admin exactly when
\* the requireAdminOrDebug gate admits the user, and both do so exactly when
\* the force-debug flag is set, or the persisted debug setting is true, or
\* IsUserAdmin answers true.
C14_SameDecision ==
  [][/\ (resp'.route = "GET /auth/me" /\ BearerUser(resp'.req).err = "")
        => /\ resp'.status = 200
           /\ resp'.body.is_admin <=> Privileged(BearerUser(resp'.req).user)
     /\ (resp'.route = "PUT /system/debug-mode" /\ GateUser(resp'.req).err = "")
        => (Admitted(resp') <=> Privileged(GateUser(resp'.req).user))
     /\ \A tok \in PresentTokens :
          Resolve(tok).err = ""
            => (requireAdminOrDebug(Resolve(tok).user, redis, NoCookie, FALSE).next
                  <=> GetMe([NoReq EXCEPT !.authorization = Bearer(tok)],
                            redis, now, FALSE, FALSE).body.is_admin)]_vars

\* In a process without the flag, the persisted setting was on and has been
\* switched off through the gate, and GET /auth/me now tells an
\* authenticated user is_admin false.
C14_Witness ==
  /\ ~forceDebugMode
  /\ DebugModeKey \in DOMAIN settings
  /\ settings[DebugModeKey] = "false"
  /\ resp.route = "GET /auth/me"
  /\ resp.status = 200
  /\ ~resp.body.is_admin

\* The admin-gated routes of the model and what CSRFMiddleware says to the
\* request on each.
GatedRoutes == {"DELETE /contacts/:id", "PUT /system/debug-mode"}

CSRFVerdict(r) ==
  IF r.route = "PUT /system/debug-mode" THEN CSRFMiddleware("PUT", PathDebugMode, r.req)
  ELSE CSRFMiddleware("DELETE", PathContacts \o FormatNat(r.arg.id), r.req)

DebugOff == ~forceDebugMode /\ ~GetDebugMode(FALSE).enabled

Validated == ret.fn = "validateCSRFToken" /\ ~ret.panic

SessionPart(tok) == SubSeq(tok, 1, CSRFSessionPart)

\* C16 as stated: validateCSRFToken(session, csrf) is true for every csrf
\* that generateCSRFToken produced for session, and false for every csrf it
\* produced for a different session token.
C16_ValidatesOwnOnly ==
  Validated => (ret.ok <=> ret.session = ret.issuedFor)

\* C16 amended: true for every csrf produced for session, and false for
\* every csrf produced for a session token whose first CSRFSessionPart
\* characters differ from those of session.
C16_ValidatesByPrefix ==
  Validated =>
    /\ ret.session = ret.issuedFor => ret.ok
    /\ SessionPart(ret.session) # SessionPart(ret.issuedFor) => ~ret.ok

\* A token generated for one session token has been refused for another.
C16_Witness ==
  /\ Validated
  /\ Len(ret.token) = CSRFMinLen
  /\ SessionPart(ret.session) # SessionPart(ret.issuedFor)
  /\ ~ret.ok

\* A request that presents tok as the session_token cookie and nothing else.
CookieSession(tok) == [NoReq EXCEPT !.cookie = tok]

\* The user has a live Directory Entry to update.
HasContact(user) == \E i \in Live(contacts) : contacts[i].TelegramID = user.TelegramID

\* C17: PUT /auth/contact with a valid session cookie and no X-CSRF-Token
\* header is answered 403 and the handler does not run.
C17_CookieNeedsCSRF ==
  [][(/\ resp'.route = "PUT /auth/contact"
      /\ Resolve(resp'.req.cookie).err = ""
      /\ resp'.req.csrf = Empty)
     => (resp'.status = 403 /\ UNCHANGED contacts)]_vars

\* PUT /auth/contact with only a valid session cookie has passed both
\* middlewares and has been answered 401 by the handler.
C17_HandlerAnswered ==
  /\ resp.route = "PUT /auth/contact"
  /\ resp.req.authorization = Empty
  /\ resp.req.csrf = Empty
  /\ Resolve(resp.req.cookie).err = ""
  /\ AuthContactGuards(resp.req, redis, now).next
  /\ resp.status = 401
  /\ resp.body.error = "Authorization header required"

\* C18: for every live session presented as the session cookie, GET
\* /auth/csrf-token answers 200 with a token, and PUT /auth/contact with
\* that cookie and that token as X-CSRF-Token passes the guards and updates
\* the user's Directory Entry (200).
C18_CookieRoundTrip ==
  \A tok \in PresentTokens, h \in HexRandoms :
    (Resolve(tok).err = "" /\ HasContact(Resolve(tok).user)) =>
      LET got == GetCSRFToken(CookieSession(tok), redis, h)
          put == [CookieSession(tok) EXCEPT !.csrf = got.body.csrf_token]
          gd == AuthContactGuards(put, redis, now)
      IN /\ got.status = 200
         /\ gd.next
         /\ UpdateMyContact(put, TRUE, [NoData EXCEPT !.Name = Some(NameBob)],
                            gd.redis, now, gd.setCookie).status = 200

\* GET /auth/csrf-token with the cookie of a live session has been answered
\* 401 and no token.
C18_NoTokenForCookie ==
  /\ resp.route = "GET /auth/csrf-token"
  /\ resp.req.authorization = Empty
  /\ Resolve(resp.req.cookie).err = ""
  /\ HasContact(Resolve(resp.req.cookie).user)
  /\ resp.status = 401
  /\ resp.body.csrf_token = Empty

\* C19: PUT /system/debug-mode reaches its handler only for a request whose
\* session resolves, whose X-CSRF-Token is valid for that session token, and
\* which the admin-or-debug gate lets through.
C19_WriteNeedsAll ==
  [][(resp'.route = "PUT /system/debug-mode" /\ Admitted(resp'))
     => /\ GateUser(resp'.req).err = ""
        /\ validateCSRFToken(CookieOrBearer(resp'.req), resp'.req.csrf).ok
        /\ Privileged(GateUser(resp'.req).user)]_vars

\* The debug setting has been written by a request that carried a Bearer
\* token and no X-CSRF-Token header.
C19_WrittenWithoutCSRF ==
  /\ resp.route = "PUT /system/debug-mode"
  /\ resp.status = 200
  /\ resp.req.authorization # Empty
  /\ resp.req.csrf = Empty
  /\ DebugModeKey \in DOMAIN settings
  /\ settings[DebugModeKey] = FormatBool(resp.arg.flag)

\* C20: GET /auth/csrf-token answers with a token only when the presented
\* session token resolves to a live session; otherwise it answers 401 and
\* no token.
C20_TokenNeedsLiveSession ==
  [][(/\ resp'.route = "GET /auth/csrf-token"
      /\ Resolve(extractSessionToken(resp'.req)).err # "")
     => (resp'.status = 401 /\ resp'.body.csrf_token = Empty)]_vars

\* GET /auth/csrf-token has answered 200 with a token for a session token
\* that no login has issued.
C20_TokenForUnknownSession ==
  /\ resp.route = "GET /auth/csrf-token"
  /\ extractSessionToken(resp.req) # Empty
  /\ extractSessionToken(resp.req) \notin issued
  /\ resp.status = 200
  /\ resp.body.csrf_token # Empty

(***************************************************************************)
(* Properties of session resolution for deactivated users and under        *)
(* failures.                                                               *)
(***************************************************************************)
\* The store holds an unexpired session under tok whose user row is inactive.
InactiveSession(tok) ==
  /\ HasEntry(tok)
  /\ now <= StoredSession(tok).ExpiredAt
  /\ StoredSession(tok).UserID \in 1..Len(users)
  /\ ~users[StoredSession(tok).UserID].IsActive

\* C21: GetUserBySession for a live session whose user is inactive returns
\* the outcome it returns for an unknown token, ErrSessionNotFound.
C21_InactiveIsSessionNotFound ==
  (resp.route = "authUseCase.GetUserBySession" /\ InactiveSession(resp.arg.name))
    => resp.body.error = "ErrSessionNotFound"

\* GetUserBySession has returned ErrUserNotFound for a live session of an
\* inactive user.
C21_DistinctError ==
  /\ resp.route = "authUseCase.GetUserBySession"
  /\ InactiveSession(resp.arg.name)
  /\ resp.body.error = "ErrUserNotFound"
  /\ Resolve(ForgedToken).err = "ErrSessionNotFound"

\* What the caller sees of an answer.
Seen(o) == [status |-> o.status, body |-> o.body]

\* A Bearer request with the CSRF token generated for its session token, and
\* the answer of PUT /auth/contact to it as routed (guards, then handler).
WithCSRF(tok) ==
  [NoReq EXCEPT !.authorization = Bearer(tok),
                !.csrf = generateCSRFToken(tok, Rep("0", CSRFHexLen)).token]

PutMyContact(req) ==
  LET gd == AuthContactGuards(req, redis, now)
  IN IF gd.next THEN UpdateMyContact(req, TRUE, NoData, gd.redis, now, gd.setCookie)
     ELSE Blocked(gd)

\* C22: in every state, a request presenting the session of an inactive
\* user gets the status and body that the same request gets with a token
\* the store does not know, on GET /auth/me, behind RequireAuthCookie, and
\* on PUT /auth/contact.
C22_InactiveLooksUnknown ==
  \A tok \in PresentTokens :
    InactiveSession(tok) =>
      LET mine == [NoReq EXCEPT !.authorization = Bearer(tok)]
          other == [NoReq EXCEPT !.authorization = Bearer(ForgedToken)]
      IN /\ Seen(GetMe(mine, redis, now, FALSE, FALSE))
              = Seen(GetMe(other, redis, now, FALSE, FALSE))
         /\ Seen(RequireAuthCookie(mine, redis, now, FALSE, FALSE))
              = Seen(RequireAuthCookie(other, redis, now, FALSE, FALSE))
         /\ Seen(PutMyContact(WithCSRF(tok))) = Seen(PutMyContact(WithCSRF(ForgedToken)))

\* GET /auth/me has answered 401 "User not found" to the session of an
\* inactive user, where an unknown token gets 401 "Invalid or expired
\* session".
C22_ToldApart ==
  /\ resp.route = "GET /auth/me"
  /\ resp.fault = "none"
  /\ InactiveSession(extractSessionToken(resp.req))
  /\ resp.status = 401
  /\ resp.body.error = "User not found"
  /\ GetMe([NoReq EXCEPT !.authorization = Bearer(ForgedToken)], redis, now, FALSE, FALSE)
       .body.error = "Invalid or expired session"

\* The token the last served route resolves, and whether that resolution
\* met the failing store or database.
ResolvedToken ==
  IF resp.route = "GET /auth/me" THEN extractSessionToken(resp.req)
  ELSE CookieOrBearer(resp.req)

TransientFailure ==
  /\ resp.route \in {"GET /auth/me", "RequireAuthCookie", "CookieAuthMiddleware"}
  /\ ResolvedToken # Empty
  /\ GetUserBySession(redis, ResolvedToken, now, resp.fault = "redis", resp.fault = "db").err
       \in {"redis: connection refused", "database is locked"}

\* C23: a session resolution that fails with a transient error of the store
\* or the database is answered 500 on every route, never 401 and never by
\* letting the request through as unauthenticated.
C23_TransientIs500 == TransientFailure => resp.status = 500

\* RequireAuthCookie has answered 401 "Invalid or expired session" to a live
\* session because Redis could not be reached.
C23_AnsweredAs401 ==
  /\ TransientFailure
  /\ resp.route = "RequireAuthCookie"
  /\ resp.fault = "redis"
  /\ Resolve(ResolvedToken).err = ""
  /\ resp.status = 401
  /\ resp.body.error = "Invalid or expired session"

(***************************************************************************)
(* Properties of process start.                                            *)
(***************************************************************************)
Started == call = NoCall

\* C24: once initSystemSettings has run against a working database, the
\* debug_mode row exists, and it stays in every later state; a row that was
\* missing at start has been created with the value false.
C24_RowExistsAfterStartup ==
  (Started /\ ret.ok) => DebugModeKey \in DOMAIN settings

\* initSystemSettings has run against a working database and a settings
\* table without the row, and the row is still missing.
C24_RowStillMissing ==
  /\ Started
  /\ ret.ok
  /\ resp.route = "initSystemSettings"
  /\ DebugModeKey \notin DOMAIN settings

(***************************************************************************)
(* Properties of the users table.                                          *)
(***************************************************************************)
UniqueTelegramID ==
  \A i, j \in 1..Len(users) : users[i].TelegramID = users[j].TelegramID => i = j

\* C25: at most one row of users per Telegram ID in every state, and no
\* step removes a row or changes the Telegram ID of one, also when the
\* statements of two first logins for the same Telegram ID interleave.
C25_UniqueImmutable ==
  /\ []UniqueTelegramID
  /\ [][/\ Len(users') >= Len(users)
        /\ \A i \in 1..Len(users) : users'[i].TelegramID = users[i].TelegramID]_vars

\* Two first logins for one Telegram ID raced: the request that lost has
\* been answered 500 by CreateUser while the winner's active row exists.
C25_Witness ==
  /\ resp.route = "POST /auth/telegram"
  /\ resp.status = 500
  /\ \E i \in 1..Len(users) : users[i].TelegramID = resp.arg.id /\ users[i].IsActive
  /\ UniqueTelegramID

\* The live Directory Entries whose TelegramID is id.
EntriesOf(id) == {c \in Live(contacts) : contacts[c].TelegramID = id}

\* C26: a successful login for a Telegram ID without a row in users appends
\* one row for it, linked to a live Directory Entry with that TelegramID if
\* there is one and unlinked otherwise; a successful login for a Telegram ID
\* that has a row leaves users as it is; and no step changes the ContactID
\* of a row.
C26_FirstLoginLinks ==
  [][/\ (resp'.route = "POST /auth/telegram" /\ resp'.status = 200) =>
          IF \E i \in 1..Len(users) : users[i].TelegramID = resp'.arg.id
            THEN users' = users
            ELSE /\ Len(users') = Len(users) + 1
                 /\ users'[Len(users')].TelegramID = resp'.arg.id
                 /\ IF EntriesOf(resp'.arg.id) = {}
                      THEN users'[Len(users')].ContactID = 0
                      ELSE users'[Len(users')].ContactID \in EntriesOf(resp'.arg.id)
     /\ \A i \in 1..Len(users) : users'[i].ContactID = users[i].ContactID]_vars

\* A second login of Telegram ID 42 has succeeded: users still holds the one
\* row its first login created, linked to the Directory Entry of 42.
C26_Witness ==
  /\ resp.route = "POST /auth/telegram"
  /\ resp.status = 200
  /\ resp.arg.id = 42
  /\ Cardinality(issued) = 2
  /\ Len(users) = 1
  /\ users[1].TelegramID = 42
  /\ users[1].ContactID \in EntriesOf(42)

(***************************************************************************)
(* Properties of session expiry.                                           *)
(***************************************************************************)
\* C27: GetUserBySession of a token whose stored record has ExpiredAt <= now
\* answers ErrSessionExpired, and it answers with a user only for a token
\* that has a stored record with now < ExpiredAt.
C27_ExpiredAtOrBefore ==
  [][resp'.route = "authUseCase.GetUserBySession" =>
       /\ (HasEntry(resp'.arg.name) /\ StoredSession(resp'.arg.name).ExpiredAt <= now)
            => resp'.body.error = "ErrSessionExpired"
       /\ resp'.body.error = ""
            => (HasEntry(resp'.arg.name) /\ now < StoredSession(resp'.arg.name).ExpiredAt)]_vars

\* GetUserBySession has returned the user of a session at the instant
\* now = ExpiredAt.
C27_ValidAtExpiry ==
  /\ resp.route = "authUseCase.GetUserBySession"
  /\ resp.body.error = ""
  /\ resp.body.id # 0
  /\ HasEntry(resp.arg.name)
  /\ StoredSession(resp.arg.name).ExpiredAt = now

(***************************************************************************)
(* Properties of the data-check string.                                    *)
(***************************************************************************)
\* The keys of a claim in lexicographic order, and the reference form: one
\* key=value line for each field that is not empty, in that order, values
\* verbatim, lines joined with a newline.
SortedKeys == <<K_auth_date, K_first_name, K_id, K_last_name, K_photo_url, K_username>>

FieldOf(a, k) ==
  IF k = K_auth_date THEN FormatInt(a.AuthDate)
  ELSE IF k = K_first_name THEN a.FirstName
  ELSE IF k = K_id THEN FormatInt(a.ID)
  ELSE IF k = K_last_name THEN a.LastName
  ELSE IF k = K_photo_url THEN a.PhotoURL
  ELSE a.Username

RECURSIVE CanonicalLines(_, _)
CanonicalLines(a, keys) ==
  IF keys = Empty THEN Empty
  ELSE IF FieldOf(a, Head(keys)) = Empty THEN CanonicalLines(a, Tail(keys))
  ELSE <<Head(keys) \o <<"=">> \o FieldOf(a, Head(keys))>> \o CanonicalLines(a, Tail(keys))

RECURSIVE Canonical(_)
Canonical(lines) ==
  IF lines = Empty THEN Empty
  ELSE IF Len(lines) = 1 THEN Head(lines)
  ELSE Head(lines) \o <<"\n">> \o Canonical(Tail(lines))

\* C28: createDataCheckString of every claim is the reference form of that
\* claim.
C28_CanonicalForm ==
  ret.fn = "createDataCheckString"
    => ret.out = Canonical(CanonicalLines(ret.authData, SortedKeys))

\* The string has been built for a claim with an empty username and values
\* that URL-escaping would change.
C28_Witness ==
  /\ ret.fn = "createDataCheckString"
  /\ ret.authData.Username = Empty
  /\ ret.authData.FirstName = <<"A", " ", "B">>
  /\ ret.authData.LastName # Empty
  /\ ret.authData.PhotoURL # Empty
  /\ ret.out = Canonical(CanonicalLines(ret.authData, SortedKeys))

(***************************************************************************)
(* Properties of the CSRF Guard on presented values.                       *)
(***************************************************************************)
LastPart(tok) == SubSeq(tok, Len(tok) - CSRFSessionPart + 1, Len(tok))

\* validateCSRFToken has been called with a session token long enough to
\* have a first part.
ValidatedPresented ==
  ret.fn = "validateCSRFToken" /\ Len(ret.session) >= CSRFSessionPart

\* C29: validateCSRFToken refuses every presented token shorter than 40
\* characters, and for every presented token of 40 characters or more it
\* returns true exactly when the last 8 characters of the presented token
\* equal the first 8 characters of the session token.
C29_LastEight ==
  ValidatedPresented =>
    /\ ~ret.panic
    /\ Len(ret.token) < CSRFMinLen => ~ret.ok
    /\ Len(ret.token) >= CSRFMinLen
         => (ret.ok <=> LastPart(ret.token) = SessionPart(ret.session))

\* A presented token longer than 40 characters whose last 8 characters are
\* the first 8 of the session token has been refused.
C29_LongTokenRefused ==
  /\ ValidatedPresented
  /\ Len(ret.token) > CSRFMinLen
  /\ LastPart(ret.token) = SessionPart(ret.session)
  /\ ~ret.panic
  /\ ~ret.ok

\* C30: generateCSRFToken and validateCSRFToken return a value, and the
\* csrf-token endpoint and the CSRF middleware answer, for every session
\* token a request presents: none of them panics.
C30_NeverPanics ==
  /\ ret.fn \in {"generateCSRFToken", "validateCSRFToken"} => ~ret.panic
  /\ resp.route \in {"GET /auth/csrf-token", "POST /auth/logout"}
       => resp.status # Panicked

\* A request with a session token shorter than 8 characters has panicked in
\* the endpoint or in the middleware.
C30_ShortTokenPanics ==
  /\ resp.route \in {"GET /auth/csrf-token", "POST /auth/logout"}
  /\ Len(extractSessionToken(resp.req)) \in 1..(CSRFSessionPart - 1)
  /\ resp.status = Panicked

(***************************************************************************)
(* Properties of the stored session.                                       *)
(***************************************************************************)

ResolvedExpired(p) ==
  call[p].pc = "done" /\ call[p].at > SeededExpiry(call[p].tok)

\* C32: when two requests resolve the same expired token, neither returns a
\* user or an internal error, and once both have finished the entry is not
\* in the store.
C32_BenignRace ==
  \A p \in Requests : \A q \in Requests \ {p} :
    (ResolvedExpired(p) /\ ResolvedExpired(q) /\ call[p].tok = call[q].tok)
      => /\ call[p].user = NoUser
         /\ call[p].err \in {"ErrSessionExpired", "ErrSessionNotFound"}
         /\ ~HasEntry(call[p].tok)

\* Both requests read the expired record before either deleted it, and both
\* have finished with ErrSessionExpired.
C32_Witness ==
  \E p \in Requests : \E q \in Requests \ {p} :
    /\ ResolvedExpired(p) /\ ResolvedExpired(q)
    /\ call[p].tok = call[q].tok
    /\ call[p].err = "ErrSessionExpired"
    /\ call[q].err = "ErrSessionExpired"
    /\ ~HasEntry(call[p].tok)

(***************************************************************************)
(* Properties of the privilege decisions under failing lookups.            *)
(***************************************************************************)
\* C33: when the read of the persisted debug setting fails, GET /auth/me and
\* the admin gate go by IsUserAdmin alone: the user is privileged exactly
\* when IsUserAdmin says so, a refusal is the ordinary 403, and GET /auth/me
\* still answers 200.
C33_DebugFailureIsOff ==
  [][(~forceDebugMode /\ resp'.fault = "debug") =>
       /\ (resp'.route = "GET /auth/me" /\ BearerUser(resp'.req).err = "")
          => /\ resp'.status = 200
             /\ resp'.body.is_admin
                  <=> IsUserAdmin(BearerUser(resp'.req).user.ID, FALSE).admin
       /\ (resp'.route = "PUT /system/debug-mode" /\ GateUser(resp'.req).err = "")
          => /\ Admitted(resp') <=> IsUserAdmin(GateUser(resp'.req).user.ID, FALSE).admin
             /\ ~Admitted(resp') => resp'.status = 403]_vars

\* The persisted setting is on but could not be read, and the gate has
\* refused an authenticated user with 403.
C33_Witness ==
  /\ ~forceDebugMode
  /\ resp.fault = "debug"
  /\ DebugModeKey \in DOMAIN settings
  /\ settings[DebugModeKey] = "true"
  /\ resp.route = "PUT /system/debug-mode"
  /\ GateUser(resp.req).err = ""
  /\ resp.status = 403

\* C34: when IsUserAdmin fails and neither the force-debug flag nor a
\* readable persisted setting switches debug mode on, GET /auth/me reports
\* is_admin false and the admin gate does not admit the request.
C34_FailClosed ==
  [][(/\ ~forceDebugMode
      /\ \/ resp'.fault = "debug+admin"
         \/ resp'.fault = "admin" /\ ~GetDebugMode(FALSE).enabled) =>
       /\ (resp'.route = "GET /auth/me" /\ BearerUser(resp'.req).err = "")
          => (resp'.status = 200 /\ ~resp'.body.is_admin)
       /\ (resp'.route = "PUT /system/debug-mode" /\ GateUser(resp'.req).err = "")
          => (~Admitted(resp') /\ settings' = settings)]_vars

\* IsUserAdmin failed for a logged-in user with debug mode off, and
\* GET /auth/me answered 200 with is_admin false.
C34_Witness ==
  /\ DebugOff
  /\ resp.fault = "admin"
  /\ resp.route = "GET /auth/me"
  /\ resp.status = 200
  /\ resp.body.telegram_id = 42
  /\ ~resp.body.is_admin

(***************************************************************************)
(* Properties of the writes to the debug setting.                          *)
(***************************************************************************)
\* C35: the persisted debug-mode value changes only in the startup
\* initialisation and in PUT /system/debug-mode requests whose session
\* resolves to a user and whose user the admin-or-debug gate admits.
C35_OnlyGatedWrites ==
  [][settings' # settings =>
       \/ call = Starting /\ resp'.route = "initSystemSettings"
       \/ /\ resp'.route = "PUT /system/debug-mode"
          /\ GateUser(resp'.req).err = ""
          /\ Privileged(GateUser(resp'.req).user)]_vars

\* After startup a request has changed the stored value.
C35_Witness ==
  /\ Started
  /\ resp.route = "PUT /system/debug-mode"
  /\ resp.status = 200
  /\ DebugModeKey \in DOMAIN settings
  /\ settings[DebugModeKey] = "false"
  /\ ~resp.arg.flag
  /\ ~forceDebugMode

(***************************************************************************)
(* Properties of expired sessions at the HTTP boundary.                    *)
(***************************************************************************)
\* The store still holds the session of tok, and its expiry has passed.
ExpiredSession(tok) == HasEntry(tok) /\ now > StoredSession(tok).ExpiredAt

\* C36: on every session-gated endpoint (GET /auth/me, the routes behind
\* RequireAuthCookie, PUT /auth/contact, GET /auth/csrf-token) a request
\* presenting an expired session gets 401 and the status and body that the
\* same request gets with a token the store does not know.
C36_ExpiredLooksUnknown ==
  \A tok \in PresentTokens :
    ExpiredSession(tok) =>
      LET mine == [NoReq EXCEPT !.authorization = Bearer(tok)]
          other == [NoReq EXCEPT !.authorization = Bearer(ForgedToken)]
      IN /\ Seen(GetMe(mine, redis, now, FALSE, FALSE))
              = Seen(GetMe(other, redis, now, FALSE, FALSE))
         /\ GetMe(mine, redis, now, FALSE, FALSE).status = 401
         /\ Seen(RequireAuthCookie(CookieSession(tok), redis, now, FALSE, FALSE))
              = Seen(RequireAuthCookie(CookieSession(ForgedToken), redis, now, FALSE, FALSE))
         /\ RequireAuthCookie(CookieSession(tok), redis, now, FALSE, FALSE).status = 401
         /\ Seen(PutMyContact(WithCSRF(tok))) = Seen(PutMyContact(WithCSRF(ForgedToken)))
         /\ PutMyContact(WithCSRF(tok)).status = 401
         /\ GetCSRFToken(mine, redis, Rep("0", CSRFHexLen)).status
              = GetCSRFToken(other, redis, Rep("0", CSRFHexLen)).status
         /\ GetCSRFToken(mine, redis, Rep("0", CSRFHexLen)).status = 401

\* GET /auth/csrf-token has answered 200 with a token to a request
\* presenting an expired session.
C36_ExpiredGetsToken ==
  /\ resp.route = "GET /auth/csrf-token"
  /\ ExpiredSession(extractSessionToken(resp.req))
  /\ resp.status = 200
  /\ resp.body.csrf_token # Empty

(***************************************************************************)
(* Properties of the acting user.                                          *)
(***************************************************************************)
\* C37: when PUT /auth/contact has updated a Directory Entry, the entry is
\* that of the user RequireAuthCookie authenticated for the request, also
\* when the cookie and the Authorization header carry tokens of two users.
C37_ActsAsAuthenticated ==
  [][(resp'.route = "PUT /auth/contact" /\ resp'.status = 200) =>
       /\ GateUser(resp'.req).err = ""
       /\ resp'.body.id \in 1..Len(contacts)
       /\ contacts[resp'.body.id].TelegramID = GateUser(resp'.req).user.TelegramID]_vars

\* A request authenticated by the cookie of one user has passed the CSRF
\* check with the token of the header's session and updated the header
\* user's Directory Entry.
C37_ActedAsHeaderUser ==
  /\ resp.route = "PUT /auth/contact"
  /\ resp.status = 200
  /\ resp.req.cookie # Empty
  /\ Resolve(resp.req.cookie).err = ""
  /\ Resolve(resp.req.cookie).user.TelegramID = 43
  /\ BearerUser(resp.req).err = ""
  /\ BearerUser(resp.req).user.TelegramID = 42
  /\ validateCSRFToken(extractSessionToken(resp.req), resp.req.csrf).ok
  /\ resp.body.id = 1
  /\ contacts[1].TelegramID = 42
  /\ contacts[1].Name = NameBob

(***************************************************************************)
(* Properties of the own-contact update.                                   *)
(***************************************************************************)
\* C38: PUT /auth/contact changes no Directory Entry other than the one
\* whose TelegramID is that of the user whose session the request presents
\* to the handler, and changes no entry's TelegramID or memberships, no
\* user, no group and no setting.
C38_OwnEntryOnly ==
  [][resp'.route = "PUT /auth/contact" =>
       /\ Len(contacts') = Len(contacts)
       /\ \A i \in 1..Len(contacts) :
            /\ contacts'[i].TelegramID = contacts[i].TelegramID
            /\ contacts'[i].Groups = contacts[i].Groups
            /\ contacts'[i].Deleted = contacts[i].Deleted
            /\ contacts'[i] # contacts[i]
                 => /\ BearerUser(resp'.req).err = ""
                    /\ contacts[i].TelegramID = BearerUser(resp'.req).user.TelegramID
       /\ UNCHANGED <<users, groups, settings>>]_vars

\* A request that asked for another TelegramID has been answered 200 with
\* that value, the entry has been renamed by an earlier request, and the
\* stored TelegramID and memberships are what they were.
C38_Witness ==
  /\ resp.route = "PUT /auth/contact"
  /\ resp.status = 200
  /\ resp.body.telegram_id = 43
  /\ contacts[1].TelegramID = 42
  /\ contacts[1].Groups = {1}
  /\ contacts[1].Name = NameBob

(***************************************************************************)
(* Login for a provider ID whose user has been deactivated.                *)
(***************************************************************************)
\* The users row of a provider ID is inactive.
InactiveAccount(id) ==
  \E i \in 1..Len(users) : users[i].TelegramID = id /\ ~users[i].IsActive

\* C39: a verified login for a provider ID whose user is inactive returns
\* ErrUserNotFound and leaves the users table and the session store as they
\* were (the database and the store working).
C39_InactiveLoginRefused ==
  [][(/\ resp'.route = "authUseCase.AuthenticateWithTelegram"
      /\ resp'.fault = "none"
      /\ InactiveAccount(resp'.arg.id))
       => /\ resp'.body.error = "ErrUserNotFound"
          /\ users' = users
          /\ redis' = redis]_vars

\* A verified login for the provider ID of an inactive user has come back
\* with the error of the unique index on users.telegram_id: the insert of a
\* second row was attempted and refused.
C39_InsertAttempted ==
  /\ resp.route = "authUseCase.AuthenticateWithTelegram"
  /\ resp.fault = "none"
  /\ InactiveAccount(resp.arg.id)
  /\ resp.body.error = "UNIQUE constraint failed: users.telegram_id"
  /\ resp.body.session_token = NoSession.SessionToken

(***************************************************************************)
(* Removal of all sessions of a user.                                      *)
(***************************************************************************)
\* The store holds a session of user id under the key of tok.
SessionOf(tok, id) == HasEntry(tok) /\ StoredSession(tok).UserID = id

\* C40: in every state that follows a DeleteAllUserSessions(userID) which
\* returned no error, the store holds no session:<token> entry of that user
\* and no token resolves to that user.
C40_AllSessionsGone ==
  (resp.route = "authRepository.DeleteAllUserSessions" /\ resp.body.error = "")
    => \A tok \in PresentTokens :
         /\ ~SessionOf(tok, resp.arg.id)
         /\ Resolve(tok).err = "" => Resolve(tok).user.ID # resp.arg.id

\* DeleteAllUserSessions has returned no error for a user, and a token
\* created for that user before the call is still stored and still
\* resolves to the user.
C40_SessionSurvives ==
  /\ resp.route = "authRepository.DeleteAllUserSessions"
  /\ resp.body.error = ""
  /\ \E tok \in issued :
       /\ SessionOf(tok, resp.arg.id)
       /\ Resolve(tok).err = ""
       /\ Resolve(tok).user.ID = resp.arg.id

====
